---- MODULE Spec2Model ----
(***************************************************************************)
(* Model of the bill synchronisation handler of src/api/sync-bills.js:     *)
(* the environment check, the list and schema fetches, the per-record      *)
(* loop (skip rules, LegiScan lookups, payload construction, patch), the   *)
(* batched publish loop and the final response.                            *)
(*                                                                         *)
(* Text is modelled as sequences of one-character strings, so that the     *)
(* regular expressions and string conversions of the source are computed   *)
(* character by character.                                                 *)
(***************************************************************************)
EXTENDS Integers, Sequences, FiniteSets, TLC

(***************************************************************************)
(* Characters and strings                                                  *)
(***************************************************************************)
LowerChars == <<"a","b","c","d","e","f","g","h","i","j","k","l","m",
                "n","o","p","q","r","s","t","u","v","w","x","y","z">>
UpperChars == <<"A","B","C","D","E","F","G","H","I","J","K","L","M",
                "N","O","P","Q","R","S","T","U","V","W","X","Y","Z">>
DigitChars == <<"0","1","2","3","4","5","6","7","8","9">>

Range(s) == { s[i] : i \in DOMAIN s }

IsDigit(c) == c \in Range(DigitChars)
IsLower(c) == c \in Range(LowerChars)
IsUpper(c) == c \in Range(UpperChars)
\* \s of the source's regular expressions, over the characters of the model
IsSpace(c) == c = " "

IndexIn(seq, c) == CHOOSE i \in DOMAIN seq : seq[i] = c

toUpperChar(c) == IF IsLower(c) THEN UpperChars[IndexIn(LowerChars, c)] ELSE c
toLowerChar(c) == IF IsUpper(c) THEN LowerChars[IndexIn(UpperChars, c)] ELSE c

\* String.prototype.toUpperCase / toLowerCase
toUpperCase(s) == [i \in DOMAIN s |-> toUpperChar(s[i])]
toLowerCase(s) == [i \in DOMAIN s |-> toLowerChar(s[i])]

Drop(s, n) == SubSeq(s, n + 1, Len(s))
Contains(s, sub) ==
    \E i \in 1..(Len(s) - Len(sub) + 1) : SubSeq(s, i, i + Len(sub) - 1) = sub

\* \d+ anchored on both sides
AllDigits(s) == Len(s) > 0 /\ \A i \in DOMAIN s : IsDigit(s[i])

RECURSIVE TrimLeft(_)
TrimLeft(s) == IF s # <<>> /\ IsSpace(Head(s)) THEN TrimLeft(Tail(s)) ELSE s
RECURSIVE TrimRight(_)
TrimRight(s) ==
    IF s # <<>> /\ IsSpace(s[Len(s)]) THEN TrimRight(SubSeq(s, 1, Len(s) - 1)) ELSE s
\* String.prototype.trim
trim(s) == TrimRight(TrimLeft(s))

RECURSIVE DigitsValue(_)
DigitsValue(s) ==
    IF s = <<>> THEN 0
    ELSE 10 * DigitsValue(SubSeq(s, 1, Len(s) - 1)) + (IndexIn(DigitChars, s[Len(s)]) - 1)

\* Number(text), as far as the handler uses it: the value of a digit string;
\* the empty string gives 0 and any other text NaN, both falsy, modelled as 0.
NumberOf(s) == IF AllDigits(s) THEN DigitsValue(s) ELSE 0

RECURSIVE JoinWith(_, _)
\* Array.prototype.join
JoinWith(parts, sep) ==
    IF parts = <<>> THEN <<>>
    ELSE IF Len(parts) = 1 THEN parts[1]
    ELSE parts[1] \o sep \o JoinWith(Tail(parts), sep)

\* a || b on texts
OrElse(a, b) == IF a # <<>> THEN a ELSE b

\* JavaScript null, distinct from every text (texts hold one-character strings)
Null == <<"null">>

(***************************************************************************)
(* Helpers of the handler                                                  *)
(***************************************************************************)

\* ^P\d+$ for a literal prefix P
MatchCode(s, p) ==
    Len(s) >= Len(p) /\ SubSeq(s, 1, Len(p)) = p /\ AllDigits(Drop(s, Len(p)))

\* the static jurisdiction option ids of the handler
MinnesotaId ==
    <<"3","b","5","6","6","a","1","d","5","3","7","6","e","7","3","6",
      "b","e","0","4","4","c","2","8","8","b","b","4","4","0","1","7">>
FederalId ==
    <<"8","7","a","3","0","0","e","0","3","b","5","a","d","7","8","5",
      "b","2","4","0","2","9","4","4","7","7","a","a","a","f","3","5">>
JURISDICTION_MAP(jurisdictionId) ==
    IF jurisdictionId = MinnesotaId THEN "MN"
    ELSE IF jurisdictionId = FederalId THEN "US"
    ELSE "none"

\* the month a Date falls in, counted from year 0: new Date(year, 5, 1) is
\* June 1 of the year, and a year of 0..99 is taken as 1900 + year
DateMonth(year, monthIndex) ==
    (IF year < 100 THEN 1900 + year ELSE year) * 12 + monthIndex

\* /tabled|laid on the? table|postponed|indefinitely|sine die|died|withdrawn|stricken/
looksDead(la) ==
    \E w \in { <<"t","a","b","l","e","d">>,
                <<"l","a","i","d"," ","o","n"," ","t","h"," ","t","a","b","l","e">>,
                <<"l","a","i","d"," ","o","n"," ","t","h","e"," ","t","a","b","l","e">>,
                <<"p","o","s","t","p","o","n","e","d">>,
                <<"i","n","d","e","f","i","n","i","t","e","l","y">>,
                <<"s","i","n","e"," ","d","i","e">>,
                <<"d","i","e","d">>,
                <<"w","i","t","h","d","r","a","w","n">>,
                <<"s","t","r","i","c","k","e","n">> } :
        Contains(la, w)

\* the status label with the last action looked at before the status code
computeStatusKeyDeadFirst(billInfo, state, legislativeYear, nowMonth) ==
    IF looksDead(toLowerCase(billInfo.last_action)) THEN <<"T","a","b","l","e","d">>
    ELSE IF billInfo.status = 4 THEN <<"P","a","s","s","e","d">>
    ELSE IF billInfo.status = 5 \/ billInfo.status = 6 THEN <<"F","a","i","l","e","d">>
    ELSE IF /\ state = "MN" /\ NumberOf(legislativeYear) # 0
            /\ nowMonth >= DateMonth(NumberOf(legislativeYear), 5)
            /\ billInfo.status \in {1, 2, 3}
         THEN <<"T","a","b","l","e","d">>
    ELSE <<"A","c","t","i","v","e">>

\* the status label with the cutoff applied in every jurisdiction
computeStatusKeyAnyState(billInfo, state, legislativeYear, nowMonth) ==
    IF billInfo.status = 4 THEN <<"P","a","s","s","e","d">>
    ELSE IF billInfo.status = 5 \/ billInfo.status = 6 THEN <<"F","a","i","l","e","d">>
    ELSE IF looksDead(toLowerCase(billInfo.last_action)) THEN <<"T","a","b","l","e","d">>
    ELSE IF /\ NumberOf(legislativeYear) # 0
            /\ nowMonth >= DateMonth(NumberOf(legislativeYear), 5)
            /\ billInfo.status \in {1, 2, 3}
         THEN <<"T","a","b","l","e","d">>
    ELSE <<"A","c","t","i","v","e">>

\* the status label of a bill; nowMonth is the month new Date() falls in
computeStatusKey(billInfo, state, legislativeYear, nowMonth) ==
    LET code == billInfo.status
        year == NumberOf(legislativeYear)
    IN  IF code = 4 THEN <<"P","a","s","s","e","d">>
        ELSE IF code = 5 \/ code = 6 THEN <<"F","a","i","l","e","d">>
        ELSE IF looksDead(toLowerCase(billInfo.last_action)) THEN <<"T","a","b","l","e","d">>
        ELSE IF /\ state = "MN" /\ year # 0
                /\ nowMonth >= DateMonth(year, 5)
                /\ code \in {1, 2, 3}
             THEN <<"T","a","b","l","e","d">>
        ELSE <<"A","c","t","i","v","e">>

\* /^[HS]F[-\s]?\d+$/i
BareCode(n) ==
    LET u == toUpperCase(n)
    IN  /\ Len(u) >= 3
        /\ u[1] \in {"H", "S"}
        /\ u[2] = "F"
        /\ \/ AllDigits(Drop(u, 2))
           \/ (u[3] = "-" \/ IsSpace(u[3])) /\ AllDigits(Drop(u, 3))

isPlaceholderName(name, billNum) ==
    LET n == trim(name)
    IN  \/ n = <<>>
        \/ billNum # <<>> /\ toUpperCase(n) = toUpperCase(billNum)
        \/ BareCode(n)
        \/ \* /^(untitled|tbd|placeholder)$/i
           toLowerCase(n) \in { <<"u","n","t","i","t","l","e","d">>, <<"t","b","d">>,
                                <<"p","l","a","c","e","h","o","l","d","e","r">> }

\* v => (v || "").toUpperCase().replace(/[\s-]+/g, "")
norm(v) == SelectSeq(toUpperCase(v), LAMBDA c : ~(IsSpace(c) \/ c = "-"))

\* if (!h && /^HF\d+$/.test(s)) { h = s; s = ""; ... }
houseFromSenate(n) ==
    IF n.houseNumber = <<>> /\ MatchCode(n.senateNumber, <<"H","F">>)
    THEN [houseNumber |-> n.senateNumber, senateNumber |-> <<>>,
          corrections |-> ("house-file-number" :> n.senateNumber) @@ ("senate-file-number" :> <<>>)
                              @@ n.corrections]
    ELSE n

\* the SF number moved without a record of the correction
senateFromHouseUnrecorded(n) ==
    IF n.senateNumber = <<>> /\ MatchCode(n.houseNumber, <<"S","F">>)
    THEN [houseNumber |-> <<>>, senateNumber |-> n.houseNumber, corrections |-> n.corrections]
    ELSE n

\* if (!s && /^SF\d+$/.test(h)) { s = h; h = ""; ... }
senateFromHouse(n) ==
    IF n.senateNumber = <<>> /\ MatchCode(n.houseNumber, <<"S","F">>)
    THEN [houseNumber |-> <<>>, senateNumber |-> n.houseNumber,
          corrections |-> ("senate-file-number" :> n.houseNumber) @@ ("house-file-number" :> <<>>)
                              @@ n.corrections]
    ELSE n

normalizeNumbers(rawHouse, rawSenate) ==
    senateFromHouse(houseFromSenate([houseNumber |-> norm(rawHouse),
                                     senateNumber |-> norm(rawSenate),
                                     corrections |-> <<>>]))

inferStateFromNumber(h, s) ==
    LET n == toUpperCase(IF h # <<>> THEN h ELSE s)
    IN  IF MatchCode(n, <<"H","F">>) \/ MatchCode(n, <<"S","F">>) THEN "MN"
        ELSE IF \E p \in {<<"H","B">>, <<"S","B">>, <<"H","R">>, <<"S","R">>,
                            <<"H","J">>, <<"S","J">>, <<"H","C">>, <<"S","C">>} :
                    MatchCode(n, p)
             THEN "US"
        ELSE "MN"

SlugMax == 80

\* .replace(/[^a-z0-9\s-]/g, '')
SlugStrip(s) == SelectSeq(s, LAMBDA c : IsLower(c) \/ IsDigit(c) \/ IsSpace(c) \/ c = "-")

\* .replace(/\s+/g, '-'): the first space of a run becomes the hyphen, the
\* others go
SlugSpaces(s) ==
    LET marked == [k \in DOMAIN s |-> <<s[k], k > 1 /\ IsSpace(s[k - 1])>>]
        left == SelectSeq(marked, LAMBDA m : ~(IsSpace(m[1]) /\ m[2]))
    IN  [k \in DOMAIN left |-> IF IsSpace(left[k][1]) THEN "-" ELSE left[k][1]]

\* runs of hyphens left as they are
SlugHyphensKept(s) == s

\* .replace(/-+/g, '-'): of a run of hyphens the first stays
SlugHyphens(s) ==
    LET marked == [k \in DOMAIN s |-> <<s[k], k > 1 /\ s[k - 1] = "-">>]
        left == SelectSeq(marked, LAMBDA m : ~(m[1] = "-" /\ m[2]))
    IN  [k \in DOMAIN left |-> left[k][1]]

\* .replace(/^-|-$/g, ''): one leading and one trailing hyphen
SlugEnds(s) ==
    LET a == IF s # <<>> /\ Head(s) = "-" THEN Tail(s) ELSE s
    IN  IF a # <<>> /\ a[Len(a)] = "-" THEN SubSeq(a, 1, Len(a) - 1) ELSE a

\* ... .substring(0, 80)
createSlug(text) ==
    LET s == SlugEnds(SlugHyphens(SlugSpaces(SlugStrip(toLowerCase(text)))))
    IN  SubSeq(s, 1, IF Len(s) > SlugMax THEN SlugMax ELSE Len(s))

(***************************************************************************)
(* Dates                                                                   *)
(***************************************************************************)
RECURSIVE Split(_, _)
\* String.prototype.split on a one-character separator
Split(s, sep) ==
    IF \E i \in DOMAIN s : s[i] = sep
    THEN LET i == CHOOSE k \in DOMAIN s : s[k] = sep /\ \A j \in 1..(k - 1) : s[j] # sep
         IN  <<SubSeq(s, 1, i - 1)>> \o Split(Drop(s, i), sep)
    ELSE <<s>>

DaysInMonth(y, m) ==
    IF m = 2 THEN (IF (y % 4 = 0 /\ y % 100 # 0) \/ y % 400 = 0 THEN 29 ELSE 28)
    ELSE IF m \in {4, 6, 9, 11} THEN 30 ELSE 31

RECURSIVE DaysBeforeMonth(_, _)
DaysBeforeMonth(y, m) == IF m <= 1 THEN 0 ELSE DaysBeforeMonth(y, m - 1) + DaysInMonth(y, m - 1)

\* days from 0001-01-01 to the first of January of year y
DaysBeforeYear(y) ==
    365 * (y - 1) + ((y - 1) \div 4) - ((y - 1) \div 100) + ((y - 1) \div 400)

\* the day number of a calendar date
DayNumber(y, m, d) == DaysBeforeYear(y) + DaysBeforeMonth(y, m) + d

\* the parts of the date before a T, split on hyphens
DateParts(s) == Split(Split(s, "T")[1], "-")

\* the Date of the parts p: valid when they are YYYY, MM and DD and name a
\* calendar date
DateOfParts(p) ==
    IF /\ Len(p) = 3
       /\ Len(p[1]) = 4 /\ AllDigits(p[1])
       /\ Len(p[2]) = 2 /\ AllDigits(p[2])
       /\ Len(p[3]) = 2 /\ AllDigits(p[3])
    THEN LET y == DigitsValue(p[1])
             m == DigitsValue(p[2])
             d == DigitsValue(p[3])
         IN  IF m \in 1..12 /\ d \in 1..DaysInMonth(y, m)
             THEN [valid |-> TRUE, t |-> DayNumber(y, m, d)]
             ELSE [valid |-> FALSE, t |-> 0]
    ELSE [valid |-> FALSE, t |-> 0]

\* new Date(dateText || 0): the epoch for a missing date, the day for a date
\* YYYY-MM-DD (optionally followed by T and a time), Invalid Date (valid =
\* FALSE) for any other text of the model
DateOf(s) ==
    IF s = <<>> THEN [valid |-> TRUE, t |-> DayNumber(1970, 1, 1)]
    ELSE DateOfParts(DateParts(s))

\* new Date(b) - new Date(a) of the descending sorts: NaN (an invalid date)
\* is taken as 0 by Array.prototype.sort
DateCompareDesc(a, b) ==
    LET da == DateOf(a)
        db == DateOf(b)
    IN  IF da.valid /\ db.valid THEN db.t - da.t ELSE 0

\* the calendar date of a day number
CivilOf(n) ==
    LET y == CHOOSE k \in (n \div 366)..(n \div 365 + 1) :
                 DaysBeforeYear(k) < n /\ n <= DaysBeforeYear(k + 1)
        r == n - DaysBeforeYear(y)
        m == CHOOSE k \in 1..12 :
                 DaysBeforeMonth(y, k) < r /\ r <= DaysBeforeMonth(y, k) + DaysInMonth(y, k)
    IN  [y |-> y, m |-> m, d |-> r - DaysBeforeMonth(y, m)]

\* new Date(year, monthIndex, day): a year of 0..99 is 1900 + year, months and
\* days out of range roll over
LocalDate(year, monthIndex, day) ==
    CivilOf(DayNumber((IF year < 100 THEN 1900 + year ELSE year) + (monthIndex \div 12),
                      (monthIndex % 12) + 1, 1) + day - 1)

RECURSIVE NatText(_)
\* String(n) of a natural number
NatText(n) == IF n < 10 THEN <<DigitChars[n + 1]>> ELSE NatText(n \div 10) \o <<DigitChars[(n % 10) + 1]>>

\* toLocaleDateString('en-US', { month:'short', day:'numeric', year:'numeric' })
toLocaleDateString(dt) ==
    << <<"J","a","n">>, <<"F","e","b">>, <<"M","a","r">>, <<"A","p","r">>,
       <<"M","a","y">>, <<"J","u","n">>, <<"J","u","l">>, <<"A","u","g">>,
       <<"S","e","p">>, <<"O","c","t">>, <<"N","o","v">>, <<"D","e","c">> >>[dt.m]
        \o <<" ">> \o NatText(dt.d) \o <<",", " ">> \o NatText(dt.y)

(***************************************************************************)
(* HTML rendering                                                          *)
(***************************************************************************)
EscChar(c) ==
    IF c = "&" THEN <<"&","a","m","p",";">>
    ELSE IF c = "<" THEN <<"&","l","t",";">>
    ELSE IF c = ">" THEN <<"&","g","t",";">>
    ELSE IF c = "\"" THEN <<"&","q","u","o","t",";">>
    ELSE IF c = "'" THEN <<"&","#","3","9",";">>
    ELSE <<c>>

RECURSIVE esc(_)
\* s.replace(/[&<>"']/g, entity)
esc(s) == IF s = <<>> THEN <<>> ELSE EscChar(Head(s)) \o esc(Tail(s))

\* part i of a destructured split, "" standing for undefined
PartAt(parts, i) == IF i <= Len(parts) THEN parts[i] ELSE <<>>

\* the date of fmt from the parts y, m, day of d
fmtYmd(d, y, m, day) ==
    IF y # <<>> /\ m # <<>> /\ day # <<>>
    THEN \* new Date(+y, +m-1, +day), Invalid Date when a part is no number
         IF AllDigits(y) /\ AllDigits(m) /\ AllDigits(day)
         THEN toLocaleDateString(
                  LocalDate(DigitsValue(y), DigitsValue(m) - 1, DigitsValue(day)))
         ELSE esc(d)
    ELSE \* new Date(d) of a text that is no date
         esc(d)

fmt(d) ==
    IF d = <<>> THEN <<>>
    ELSE LET parts == DateParts(d)
         IN  fmtYmd(d, PartAt(parts, 1), PartAt(parts, 2), PartAt(parts, 3))

TagPOpen == <<"<","p",">">>
TagPClose == <<"<","/","p",">">>
TagBr == <<"<","b","r",">">>
\* the bullet character U+2022 followed by a space
Bullet == <<"bullet", " ">>

\* one block: <p><strong>date</strong><br>body</p>, or <p>body</p> without a date
TimelineBlock(dateText, body) ==
    IF dateText # <<>>
    THEN TagPOpen \o <<"<","s","t","r","o","n","g",">">> \o esc(dateText)
             \o <<"<","/","s","t","r","o","n","g",">">> \o TagBr \o body \o TagPClose
    ELSE TagPOpen \o body \o TagPClose

\* (a, b) => new Date(b.date || 0) - new Date(a.date || 0), the comparator of
\* the history and of the texts
ByDateDesc(a, b) == DateCompareDesc(a.date, b.date)

RECURSIVE InsertByDate(_, _)
\* x placed after every element it does not sort before (a stable sort step)
InsertByDate(sorted, x) ==
    IF sorted = <<>> THEN <<x>>
    ELSE IF ByDateDesc(x, Head(sorted)) < 0 THEN <<x>> \o sorted
    ELSE <<Head(sorted)>> \o InsertByDate(Tail(sorted), x)

RECURSIVE SortByDate(_)
\* Array.prototype.sort with the comparator ByDateDesc (stable)
SortByDate(seq) ==
    IF seq = <<>> THEN <<>>
    ELSE InsertByDate(SortByDate(SubSeq(seq, 1, Len(seq) - 1)), seq[Len(seq)])

\* every key added as a new one
AddKeyAgain(init, k) == Append(init, k)

\* Map.set of a key: a new key goes last
AddKey(init, k) == IF k \in Range(init) THEN init ELSE Append(init, k)

RECURSIVE DistinctKeys(_)
\* the keys of the Map, in insertion order
DistinctKeys(keys) ==
    IF keys = <<>> THEN <<>>
    ELSE AddKey(DistinctKeys(SubSeq(keys, 1, Len(keys) - 1)), keys[Len(keys)])

RECURSIVE Flatten(_)
Flatten(parts) == IF parts = <<>> THEN <<>> ELSE Head(parts) \o Flatten(Tail(parts))

\* the actions grouped under the date k
GroupOf(hist, k) ==
    LET sel == SelectSeq(hist, LAMBDA item : item.date = k)
    IN  [i \in DOMAIN sel |-> sel[i].action]

\* one action as it stands, several as bulleted lines
GroupBody(actions) ==
    IF Len(actions) = 1 THEN esc(actions[1])
    ELSE JoinWith([j \in DOMAIN actions |-> Bullet \o esc(actions[j])], TagBr)

\* blocks.join("<br>"): every block but the last is followed by <br>
Joined(html, isLast) == IF isLast THEN html ELSE html \o TagBr

\* the blocks of the dates keys, in order
TimelineGroups(hist, keys) ==
    Flatten([i \in DOMAIN keys |->
                Joined(TimelineBlock(fmt(keys[i]), GroupBody(GroupOf(hist, keys[i]))),
                       i = Len(keys))])

\* the sorted history, grouped by date in order of first appearance
SortedTimeline(hist) ==
    TimelineGroups(hist, DistinctKeys([i \in DOMAIN hist |-> hist[i].date]))

buildTimelineHtml(info) ==
    IF info.history = <<>>
    THEN LET d == OrElse(info.last_action_date, info.status_date)
             a == OrElse(info.last_action,
                         <<"N","o"," ","r","e","c","e","n","t"," ","a","c","t","i","o","n","s",
                           " ","r","e","c","o","r","d","e","d">>)
         IN  IF d = <<>> /\ a = <<>> THEN <<>> ELSE TimelineBlock(fmt(d), esc(a))
    ELSE SortedTimeline(SortByDate(info.history))

\* the collation rank of a character of the model: space, digits, then
\* letters without regard to case
PrimaryRank(c) ==
    IF IsDigit(c) THEN IndexIn(DigitChars, c)
    ELSE IF IsLower(c) \/ IsUpper(c) THEN 10 + IndexIn(LowerChars, toLowerChar(c))
    ELSE 0

RECURSIVE RankCompare(_, _)
RankCompare(a, b) ==
    IF a = <<>> /\ b = <<>> THEN 0
    ELSE IF a = <<>> THEN -1
    ELSE IF b = <<>> THEN 1
    ELSE IF PrimaryRank(Head(a)) # PrimaryRank(Head(b))
         THEN PrimaryRank(Head(a)) - PrimaryRank(Head(b))
    ELSE RankCompare(Tail(a), Tail(b))

RECURSIVE CaseCompare(_, _)
\* equal ranks: at the first difference the lower-case letter sorts first
CaseCompare(a, b) ==
    IF a = <<>> \/ b = <<>> THEN 0
    ELSE IF Head(a) = Head(b) THEN CaseCompare(Tail(a), Tail(b))
    ELSE IF IsLower(Head(a)) THEN -1 ELSE 1

\* String.prototype.localeCompare over letters, digits and spaces
localeCompare(a, b) ==
    IF RankCompare(a, b) # 0 THEN RankCompare(a, b) ELSE CaseCompare(a, b)

\* co-sponsors ranked too, after the joint sponsors
sponsorTypeRankWithCo(typeId) ==
    IF typeId = 1 THEN 0
    ELSE IF typeId = 3 THEN 1
    ELSE IF typeId = 2 THEN 2
    ELSE 999

sponsorTypeRank(typeId) ==
    IF typeId = 1 THEN 0
    ELSE IF typeId = 3 THEN 1
    ELSE 999

\* the district pattern applied whatever the state
prefixForAnyState(s, state) ==
    LET roleText == toLowerCase(s.role)
        ch == toLowerCase(s.chamber)
        dist == s.district
    IN  IF s.role_id = 1 THEN <<"R","e","p",".">>
        ELSE IF s.role_id = 2 THEN <<"S","e","n",".">>
        ELSE IF roleText \in {<<"s","e","n">>, <<"s","e","n","a","t","o","r">>} THEN <<"S","e","n",".">>
        ELSE IF roleText \in {<<"r","e","p">>, <<"r","e","p","r","e","s","e","n","t","a","t","i","v","e">>} THEN <<"R","e","p",".">>
        ELSE IF ch \in {<<"s">>, <<"s","e","n","a","t","e">>, <<"u","p","p","e","r">>} THEN <<"S","e","n",".">>
        ELSE IF ch \in {<<"h">>, <<"h","o","u","s","e">>, <<"l","o","w","e","r">>} THEN <<"R","e","p",".">>
        ELSE IF /\ Len(dist) \in 2..4
                /\ AllDigits(SubSeq(dist, 1, Len(dist) - 1))
                /\ toUpperChar(dist[Len(dist)]) \in {"A", "B"}
             THEN <<"R","e","p",".">>
        ELSE IF Len(dist) \in 1..3 /\ AllDigits(dist) THEN <<"S","e","n",".">>
        ELSE <<>>

prefixFor(s, state) ==
    LET roleText == toLowerCase(s.role)
        ch == toLowerCase(s.chamber)
        dist == s.district
    IN  IF s.role_id = 1 THEN <<"R","e","p",".">>
        ELSE IF s.role_id = 2 THEN <<"S","e","n",".">>
        ELSE IF roleText \in {<<"s","e","n">>, <<"s","e","n","a","t","o","r">>} THEN <<"S","e","n",".">>
        ELSE IF roleText \in {<<"r","e","p">>, <<"r","e","p","r","e","s","e","n","t","a","t","i","v","e">>} THEN <<"R","e","p",".">>
        ELSE IF ch \in {<<"s">>, <<"s","e","n","a","t","e">>, <<"u","p","p","e","r">>} THEN <<"S","e","n",".">>
        ELSE IF ch \in {<<"h">>, <<"h","o","u","s","e">>, <<"l","o","w","e","r">>} THEN <<"R","e","p",".">>
        ELSE IF /\ state = "MN"
                /\ \* /^\d{1,3}[A-B]$/i
                   Len(dist) \in 2..4
                /\ AllDigits(SubSeq(dist, 1, Len(dist) - 1))
                /\ toUpperChar(dist[Len(dist)]) \in {"A", "B"}
             THEN <<"R","e","p",".">>
        ELSE IF /\ state = "MN"
                /\ \* /^\d{1,3}$/
                   Len(dist) \in 1..3
                /\ AllDigits(dist)
             THEN <<"S","e","n",".">>
        ELSE <<>>

\* the sponsors compared by rank alone
SponsorCompareByRank(a, b) ==
    sponsorTypeRank(a.sponsor_type_id) - sponsorTypeRank(b.sponsor_type_id)

SponsorCompare(a, b) ==
    IF sponsorTypeRank(a.sponsor_type_id) # sponsorTypeRank(b.sponsor_type_id)
    THEN sponsorTypeRank(a.sponsor_type_id) - sponsorTypeRank(b.sponsor_type_id)
    ELSE localeCompare(a.name, b.name)

RECURSIVE InsertSponsor(_, _)
\* x placed after every sponsor it does not sort before (a stable sort step)
InsertSponsor(sorted, x) ==
    IF sorted = <<>> THEN <<x>>
    ELSE IF SponsorCompare(x, Head(sorted)) < 0 THEN <<x>> \o sorted
    ELSE <<Head(sorted)>> \o InsertSponsor(Tail(sorted), x)

RECURSIVE SortSponsors(_)
\* filteredList.sort with the comparator SponsorCompare (stable)
SortSponsors(seq) ==
    IF seq = <<>> THEN <<>>
    ELSE InsertSponsor(SortSponsors(SubSeq(seq, 1, Len(seq) - 1)), seq[Len(seq)])

\* [s.name, s.sponsor_type_id, s.party, s.district].join("|")
SponsorKey(s) ==
    JoinWith(<<s.name, NatText(s.sponsor_type_id), s.party, s.district>>, <<"|">>)

RECURSIVE DedupeSponsors(_)
\* the filter with the seen set: the first entry of each key is kept
DedupeSponsors(list) ==
    IF list = <<>> THEN <<>>
    ELSE IF \E i \in 1..(Len(list) - 1) : SponsorKey(list[i]) = SponsorKey(list[Len(list)])
         THEN DedupeSponsors(SubSeq(list, 1, Len(list) - 1))
    ELSE Append(DedupeSponsors(SubSeq(list, 1, Len(list) - 1)), list[Len(list)])

SponsorLine(s, state) ==
    trim(prefixFor(s, state) \o <<" ">>
             \o (IF s.name # <<>> THEN esc(s.name) ELSE <<>>)
             \o (IF s.party # <<>> THEN <<" ", "(">> \o esc(s.party) \o <<")">> ELSE <<>>))

\* the lines of the kept sponsors, joined with <br>
SponsorRows(items, state) ==
    Flatten([i \in DOMAIN items |->
                Joined(TagPOpen \o SponsorLine(items[i], state) \o TagPClose,
                       i = Len(items))])

buildSponsorsHtml(info, state) ==
    IF info.sponsors = <<>> THEN <<>>
    ELSE SponsorRows(
             DedupeSponsors(
                 SortSponsors(SelectSeq(info.sponsors,
                                  LAMBDA s : sponsorTypeRank(s.sponsor_type_id) < 999))),
             state)

(***************************************************************************)
(* Document link                                                           *)
(***************************************************************************)
\* /\.pdf($|\?)/i
PdfUrl(u) ==
    LET l == toLowerCase(u)
    IN  \E i \in 1..(Len(l) - 3) :
            /\ SubSeq(l, i, i + 3) = <<".","p","d","f">>
            /\ (i + 3 = Len(l) \/ l[i + 4] = "?")

\* /pdf/i.test(t.mime) || /\.pdf($|\?)/i.test(t.state_link || t.url)
IsPdfText(t) ==
    Contains(toLowerCase(t.mime), <<"p","d","f">>) \/ PdfUrl(OrElse(t.state_link, t.url))

\* return t.state_link || t.url || null
LinkOf(t) ==
    IF t.state_link # <<>> THEN t.state_link ELSE IF t.url # <<>> THEN t.url ELSE Null

\* the first of the sorted texts, PDF or not
PickFirstSorted(texts) == LinkOf(texts[1])

\* texts.find(...) over the sorted texts: the first PDF text, or else the
\* first text
PickFromSorted(texts) ==
    IF \E i \in DOMAIN texts : IsPdfText(texts[i])
    THEN LinkOf(texts[CHOOSE i \in DOMAIN texts :
                          IsPdfText(texts[i]) /\ \A j \in 1..(i - 1) : ~IsPdfText(texts[j])])
    ELSE LinkOf(texts[1])

pickBestTextUrl(info) ==
    IF info.texts # <<>>
    THEN PickFromSorted(SortByDate(info.texts))
    ELSE LinkOf(info)

(***************************************************************************)
(* LegiScan lookup                                                         *)
(***************************************************************************)
\* what the LegiScan endpoint can answer to one getBill request: the fetch or
\* its json() throws, the status flag is not "OK", the flag is "OK" and the
\* payload is absent, or the flag is "OK" with a bill payload
OkAnswer(b) == [status |-> "OK", bill |-> b]
LookupFailures == { [status |-> "throw"], [status |-> "ERROR"], [status |-> "OK"] }

\* data.status === "OK" && data.bill
IsBillAnswer(a) == a.status = "OK" /\ "bill" \in DOMAIN a

\* the search numbers fetchLegiScanBill may query, in order; the first of a
\* federal HR number is the guarded HB attempt
searchNumbers(state, billNumber) ==
    IF state = "US" /\ MatchCode(toUpperCase(billNumber), <<"H","R">>)
    THEN << <<"H","B">> \o Drop(billNumber, 2), billNumber >>
    ELSE IF state = "US" /\ MatchCode(toUpperCase(billNumber), <<"S">>)
    THEN << <<"S","B">> \o Drop(billNumber, 1) >>
    ELSE << billNumber >>

\* fetchLegiScanBill under the answers the endpoint gives to its requests:
\* the requests made, and the bill returned or the error thrown
\* the requests for the search numbers nums, each with its answer
Requests(state, nums, answers) ==
    [k \in DOMAIN nums |->
        [op |-> "getBill", state |-> state, bill |-> nums[k], answer |-> answers[k]]]

\* every search number queried, the last answer alone deciding
FetchedOfLast(reqs) ==
    IF IsBillAnswer(reqs[Len(reqs)].answer)
    THEN [requests |-> reqs, ok |-> TRUE, bill |-> reqs[Len(reqs)].answer.bill]
    ELSE [requests |-> reqs, ok |-> FALSE,
          error |-> IF reqs[Len(reqs)].answer.status = "throw" THEN "fetch failed"
                    ELSE "Bill not found"]

\* the outcome of the requests reqs: the guarded first attempt returns its
\* bill; otherwise the last request returns its bill or throws
Fetched(reqs) ==
    IF Len(reqs) = 2 /\ IsBillAnswer(reqs[1].answer)
    THEN [requests |-> <<reqs[1]>>, ok |-> TRUE, bill |-> reqs[1].answer.bill]
    ELSE IF IsBillAnswer(reqs[Len(reqs)].answer)
         THEN [requests |-> reqs, ok |-> TRUE, bill |-> reqs[Len(reqs)].answer.bill]
    ELSE [requests |-> reqs, ok |-> FALSE,
          error |-> IF reqs[Len(reqs)].answer.status = "throw" THEN "fetch failed"
                    ELSE "Bill not found"]

fetchLegiScanBill(state, billNumber, answers) ==
    Fetched(Requests(state, searchNumbers(state, billNumber), answers))

(***************************************************************************)
(* Collection schema                                                       *)
(***************************************************************************)
StatusNames ==
    << <<"A","c","t","i","v","e">>, <<"T","a","b","l","e","d">>,
       <<"F","a","i","l","e","d">>, <<"P","a","s","s","e","d">> >>

\* opt.name.toLowerCase() === name.toLowerCase()
OptionNamed(opt, name) == toLowerCase(opt.name) = toLowerCase(name)

\* the ids of the named options among opts, each of the first option of the
\* name (opts.find), or the error thrown when a name has no option
MapOf(opts, names) ==
    IF \A n \in Range(names) : \E k \in DOMAIN opts : OptionNamed(opts[k], n)
    THEN [ok |-> TRUE,
          map |-> [n \in Range(names) |->
                      opts[CHOOSE k \in DOMAIN opts :
                               /\ OptionNamed(opts[k], n)
                               /\ \A j \in 1..(k - 1) : ~OptionNamed(opts[j], n)].id]]
    ELSE [ok |-> FALSE, map |-> <<>>]

makeMap(fields, slug, names) ==
    IF slug \notin DOMAIN fields THEN [ok |-> FALSE, map |-> <<>>]
    ELSE IF fields[slug].type # "Option" THEN [ok |-> FALSE, map |-> <<>>]
    ELSE MapOf(fields[slug].options, names)

\* the three maps, ok when no makeMap threw
getOptionIdMaps(fields) ==
    LET h == makeMap(fields, "house-file-status", StatusNames)
        s == makeMap(fields, "senate-file-status", StatusNames)
        j == makeMap(fields, "jurisdiction",
                     << <<"M","i","n","n","e","s","o","t","a">>, <<"F","e","d","e","r","a","l">> >>)
    IN  [ok |-> h.ok /\ s.ok /\ j.ok,
         houseStatusIds |-> h.map, senateStatusIds |-> s.map, jurisdictionIds |-> j.map]

(***************************************************************************)
(* The update payload of one record                                        *)
(***************************************************************************)
EmptyMap == [x \in {} |-> <<>>]

\* the constants the loop body declares for the record b, nn being its
\* normalized numbers
Locals(b, nn) ==
    [id |-> b.id,
     manualOverride |-> b.fieldData["manual-override"],
     currentName |-> trim(b.fieldData["name"]),
     legislativeYear |-> trim(b.fieldData["legislative-year"]),
     houseNumber |-> nn.houseNumber,
     senateNumber |-> nn.senateNumber,
     corrections |-> nn.corrections,
     state |-> IF JURISDICTION_MAP(b.fieldData["jurisdiction"]) # "none"
               THEN JURISDICTION_MAP(b.fieldData["jurisdiction"])
               ELSE inferStateFromNumber(nn.houseNumber, nn.senateNumber),
     primaryNumber |-> OrElse(nn.houseNumber, nn.senateNumber)]

localsOf(b) ==
    Locals(b, normalizeNumbers(b.fieldData["house-file-number"],
                               b.fieldData["senate-file-number"]))

\* the title kept, or taken over when the name is a placeholder
billTitleOf(v, placeholder, primaryInfo) ==
    IF placeholder THEN OrElse(primaryInfo.title, v.primaryNumber) ELSE v.currentName

\* the name written whatever the existing name is
nameFieldAlways(placeholder, billTitle) == "name" :> billTitle

\* updateData.fieldData["name"] = billTitle, for a placeholder name only
nameField(placeholder, billTitle) == IF placeholder THEN "name" :> billTitle ELSE EmptyMap

\* the status written as Active whatever the bill
statusFieldActive(field, number, info, statusIds, v, nowMonth) ==
    IF number # <<>> THEN field :> statusIds[<<"A","c","t","i","v","e">>] ELSE EmptyMap

\* one chamber's status field: written when the chamber has a number
statusField(field, number, info, statusIds, v, nowMonth) ==
    IF number # <<>>
    THEN field :> statusIds[computeStatusKey(info, v.state, v.legislativeYear, nowMonth)]
    ELSE EmptyMap

\* if (link) updateData.fieldData[field] = link
foundLink(field, link) == IF link # Null THEN field :> link ELSE EmptyMap

\* one chamber's link field without the null after a correction
linkFieldNeverCleared(field, number, info, corrections, numberField) ==
    IF number # <<>> THEN foundLink(field, pickBestTextUrl(info)) ELSE EmptyMap

\* one chamber's link field: a found link, nothing, or null after a correction
linkField(field, number, info, corrections, numberField) ==
    IF number # <<>> THEN foundLink(field, pickBestTextUrl(info))
    ELSE IF numberField \in DOMAIN corrections /\ corrections[numberField] = <<>>
         THEN field :> Null
    ELSE EmptyMap

\* `${legislativeYear}--${billNumbers}--${headlineSlug}`, billNumbers being
\* [houseNumber, senateNumber].filter(Boolean).join('-').toLowerCase()
structuredSlug(legislativeYear, houseNumber, senateNumber, billTitle) ==
    legislativeYear \o <<"-", "-">>
        \o toLowerCase(JoinWith(SelectSeq(<<houseNumber, senateNumber>>, LAMBDA n : n # <<>>),
                                <<"-">>))
        \o <<"-", "-">> \o createSlug(billTitle)

\* updateData.fieldData as the assignments leave it
fieldDataOf(v, placeholder, billTitle, primaryInfo, houseInfo, senateInfo, ids, nowMonth) ==
    linkField("senate-file-link", v.senateNumber, senateInfo, v.corrections, "senate-file-number")
        @@ linkField("house-file-link", v.houseNumber, houseInfo, v.corrections, "house-file-number")
        @@ ("sponsors" :> buildSponsorsHtml(primaryInfo, v.state))
        @@ ("timeline" :> buildTimelineHtml(primaryInfo))
        @@ statusField("senate-file-status", v.senateNumber, senateInfo, ids.senateStatusIds,
                       v, nowMonth)
        @@ statusField("house-file-status", v.houseNumber, houseInfo, ids.houseStatusIds,
                       v, nowMonth)
        @@ nameField(placeholder, billTitle)
        @@ v.corrections

\* the slug written whether or not the record has a legislative year
withSlugAlways(v, billTitle, fieldData) ==
    [fieldData |-> fieldData,
     slug |-> structuredSlug(v.legislativeYear, v.houseNumber, v.senateNumber, billTitle)]

\* if (legislativeYear && billTitle) updateData.slug = structuredSlug
withSlug(v, billTitle, fieldData) ==
    IF v.legislativeYear # <<>> /\ billTitle # <<>>
    THEN [fieldData |-> fieldData,
          slug |-> structuredSlug(v.legislativeYear, v.houseNumber, v.senateNumber, billTitle)]
    ELSE [fieldData |-> fieldData]

\* the payload, placeholder telling whether the current name is a placeholder
namedUpdate(v, placeholder, primaryInfo, houseInfo, senateInfo, ids, nowMonth) ==
    withSlug(v, billTitleOf(v, placeholder, primaryInfo),
             fieldDataOf(v, placeholder, billTitleOf(v, placeholder, primaryInfo),
                         primaryInfo, houseInfo, senateInfo, ids, nowMonth))

\* the update payload of the record with the locals v
buildUpdateData(v, primaryInfo, houseInfo, senateInfo, ids, nowMonth) ==
    namedUpdate(v, isPlaceholderName(v.currentName, v.primaryNumber),
                primaryInfo, houseInfo, senateInfo, ids, nowMonth)

\* the payload taken as empty when it holds computed fields only
noChangesBeyondComputed(updateData) ==
    /\ DOMAIN updateData.fieldData
          \subseteq {"timeline", "sponsors", "house-file-status", "senate-file-status"}
    /\ ("slug" \notin DOMAIN updateData \/ updateData.slug = <<>>)

\* !Object.keys(updateData.fieldData).length && !updateData.slug
noChanges(updateData) ==
    DOMAIN updateData.fieldData = {} /\ ("slug" \notin DOMAIN updateData \/ updateData.slug = <<>>)

(***************************************************************************)
(* The environment: the CMS collection, the LegiScan data, the clock       *)
(***************************************************************************)
MaxBills == 2
MaxFullChunks == 1
CHUNK == 100

\* raw values of a record's fields
HouseRaws == { <<>>, <<"H","F"," ","1">>, <<"s","f","-","2">>, <<"H","R","3">> }
SenateRaws == { <<>>, <<"S","F","2">>, <<"h","f","1">>, <<" ","-"," ">>, <<"S","4">> }
NameRaws == { <<>>, <<" ">>, <<"h","r","3">>, <<"h","f"," ","9">>, <<"T","b","d">>, <<"T","a","x"," ","A","c","t"," ">> }
YearRaws == { <<>>, <<" ","2","0","2","4">> }

FieldData(mo, h, s, n, j, y) ==
    [ f \in {"manual-override", "house-file-number", "senate-file-number", "name",
             "jurisdiction", "legislative-year"} |->
        CASE f = "manual-override" -> mo
          [] f = "house-file-number" -> h
          [] f = "senate-file-number" -> s
          [] f = "name" -> n
          [] f = "jurisdiction" -> j
          [] f = "legislative-year" -> y ]

\* every pair of identifiers under every jurisdiction and year, with a name
\* that is kept
NumberRecords ==
    { FieldData(FALSE, h, s, <<"T","a","x"," ","A","c","t"," ">>, j, y) :
        h \in HouseRaws, s \in SenateRaws, j \in { MinnesotaId, FederalId, <<>> }, y \in YearRaws }

\* every name over each kind of primary number
NameRecords ==
    { FieldData(FALSE, p[1], p[2], n, <<>>, y) :
        p \in { <<<<"H","F"," ","1">>, <<>>>>, << <<>>, <<"S","F","2">>>>, <<<<"H","R","3">>, <<>>>> },
        n \in NameRaws, y \in YearRaws }

\* records under manual override
OverrideRecords ==
    { FieldData(TRUE, h, s, <<>>, MinnesotaId, <<>>) : h \in HouseRaws, s \in { <<>>, <<" ","-"," ">> } }

\* an unnamed record of the house file 1099 of 2024
UnnamedRecord == FieldData(FALSE, <<"H","F"," ","1","0","9","9">>, <<>>, <<>>, MinnesotaId, <<"2","0","2","4">>)

\* every kind of record, and unnamed records with a year or a blank for one
Records ==
    NumberRecords \cup NameRecords \cup OverrideRecords
        \cup { FieldData(FALSE, <<"H","F"," ","1">>, s, <<>>, MinnesotaId, y) :
                  s \in { <<>>, <<"S","F","2">> }, y \in { <<" ">>, <<" ","2","0","2","4">> } }
        \cup { UnnamedRecord }

\* a record with nothing to correct
PlainRecord == FieldData(FALSE, <<"H","F"," ","1">>, <<>>, <<>>, MinnesotaId, <<" ","2","0","2","4">>)

CoreRecords ==
    { PlainRecord,
      FieldData(TRUE, <<"H","F"," ","1">>, <<>>, <<"T","a","x"," ","A","c","t"," ">>, MinnesotaId, <<>>),
      FieldData(FALSE, <<>>, <<" ","-"," ">>, <<>>, <<>>, <<>>),
      FieldData(FALSE, <<"H","R","3">>, <<>>, <<"T","a","x"," ","A","c","t"," ">>, FederalId, <<>>) }

RECURSIVE ListsUpTo(_, _)
ListsUpTo(S, n) ==
    IF n = 0 THEN { <<>> }
    ELSE ListsUpTo(S, n - 1) \cup
         { Append(l, x) : l \in { k \in ListsUpTo(S, n - 1) : Len(k) = n - 1 }, x \in S }

\* what the collection can hold: one record of any kind, a few core records,
\* or a long run of plain records, of a size at which the publish loop
\* changes its number of chunks: a whole number of chunks, and one record more
Collections ==
    { <<r>> : r \in Records } \cup ListsUpTo(CoreRecords, MaxBills)
        \cup { [k \in 1..(n * CHUNK + d) |-> PlainRecord] : n \in 1..MaxFullChunks, d \in {0, 1} }

\* bill payloads of the source
PlainBill ==
    [ status |-> 1, last_action |-> <<"R","e","f","e","r","r","e","d">>, last_action_date |-> <<"2","0","2","4","-","0","3","-","0","5">>,
      status_date |-> <<>>, title |-> <<"T","a","x",":"," ","A","c","t","!">>,
      texts |-> << [date |-> <<"2","0","2","4","-","0","1","-","0","2">>, mime |-> <<"t","e","x","t","/","h","t","m","l">>, state_link |-> <<>>,
                    url |-> <<"u","/","1">>],
                   [date |-> <<"2","0","2","4","-","0","1","-","0","1">>, mime |-> <<"a","p","p","l","i","c","a","t","i","o","n","/","p","d","f">>,
                    state_link |-> <<"s","/","1",".","p","d","f">>, url |-> <<>>] >>,
      state_link |-> <<"s","/","b">>, url |-> <<"u","/","b">>,
      history |-> << [date |-> <<"2","0","2","4","-","0","3","-","0","1">>, action |-> <<"R","e","a","d">>],
                     [date |-> <<"2","0","2","4","-","0","3","-","0","5">>, action |-> <<"R","e","f","e","r","r","e","d">>],
                     [date |-> <<"2","0","2","4","-","0","3","-","0","1">>, action |-> <<"F","i","l","e","d">>] >>,
      sponsors |-> << [name |-> <<"B","o">>, party |-> <<"R">>, sponsor_type_id |-> 2, role_id |-> 1,
                       role |-> <<>>, chamber |-> <<>>, district |-> <<"1","2","A">>],
                      [name |-> <<"A","l">>, party |-> <<"D">>, sponsor_type_id |-> 1, role_id |-> 0,
                       role |-> <<>>, chamber |-> <<>>, district |-> <<"1","2">>] >> ]

\* a tabled bill without title, documents, links, history or sponsors
BareBill ==
    [ status |-> 3, last_action |-> <<"L","a","i","d"," ","o","n"," ","t","h","e"," ","t","a","b","l","e">>, last_action_date |-> <<>>,
      status_date |-> <<>>, title |-> <<>>, texts |-> <<>>, state_link |-> <<>>, url |-> <<>>,
      history |-> <<>>, sponsors |-> <<>> ]

\* a passed bill whose only document carries no link
PassedBill ==
    [ status |-> 4, last_action |-> <<>>, last_action_date |-> <<"n","/","a">>,
      status_date |-> <<>>, title |-> <<"R","&","D">>,
      texts |-> << [date |-> <<>>, mime |-> <<"p","d","f">>, state_link |-> <<>>, url |-> <<>>] >>,
      state_link |-> <<>>, url |-> <<"u","/","c">>,
      history |-> <<>>, sponsors |-> <<>> ]

\* a tabled bill with a title and one linked document
TabledBill ==
    [ status |-> 3, last_action |-> <<"L","a","i","d"," ","o","n"," ","t","h","e"," ","t","a","b","l","e">>,
      last_action_date |-> <<"2","0","2","4","-","0","3","-","0","5">>,
      status_date |-> <<>>, title |-> <<"B","o","n","d","s">>,
      texts |-> << [date |-> <<"2","0","2","4","-","0","1","-","0","1">>, mime |-> <<"t","e","x","t","/","h","t","m","l">>,
                    state_link |-> <<>>, url |-> <<"u","/","2">>] >>,
      state_link |-> <<>>, url |-> <<>>,
      history |-> <<>>, sponsors |-> <<>> ]

\* the tabled bill after a newer document was filed that carries no link yet
TabledBillAmended ==
    [TabledBill EXCEPT
        !.texts = << [date |-> <<"2","0","2","4","-","0","2","-","0","1">>, mime |-> <<"t","e","x","t","/","h","t","m","l">>,
                      state_link |-> <<>>, url |-> <<>>] >> \o @]

Bills == { PlainBill, BareBill, PassedBill, TabledBill, TabledBillAmended }

\* the collection schema: the status and jurisdiction fields with their options
OptionField(prefix, names) ==
    [ type |-> "Option",
      options |-> [k \in DOMAIN names |-> [name |-> names[k], id |-> <<prefix, k>>]] ]

GoodSchema ==
    [ f \in {"house-file-status", "senate-file-status", "jurisdiction"} |->
        CASE f = "house-file-status" ->
                 OptionField("h", <<<<"A","C","T","I","V","E">>, <<"t","a","b","l","e","d">>, <<"F","a","i","l","e","d">>, <<"P","a","s","s","e","d">>>>)
          [] f = "senate-file-status" ->
                 OptionField("s", <<<<"P","a","s","s","e","d">>, <<"F","a","i","l","e","d">>, <<"T","a","b","l","e","d">>, <<"A","c","t","i","v","e">>>>)
          [] f = "jurisdiction" -> OptionField("j", <<<<"M","i","n","n","e","s","o","t","a">>, <<"F","e","d","e","r","a","l">>>>) ]

Schemas ==
    { GoodSchema,
      \* the senate field lacks the Tabled option
      [GoodSchema EXCEPT !["senate-file-status"] =
          OptionField("s", <<<<"P","a","s","s","e","d">>, <<"F","a","i","l","e","d">>, <<"A","c","t","i","v","e">>>>)],
      \* the house field is no Option field
      [GoodSchema EXCEPT !["house-file-status"].type = "PlainText"],
      \* the jurisdiction field is missing
      [f \in {"house-file-status", "senate-file-status"} |-> GoodSchema[f]] }

(***************************************************************************)
(* The handler                                                             *)
(***************************************************************************)
VARIABLES
    env,          \* which of the three environment variables are set
    now,          \* the month the clock showed when last read
    pc,           \* where the handler stands
    bills,        \* the fetched list of records
    ids,          \* the option id maps built from the schema
    cursor,       \* the number of records the loop has taken from the list
    results,      \* the handler's results object
    toPublish,    \* the ids queued for publish
    i,            \* the publish loop's index into toPublish
    publishedOk,  \* the count of ids the CMS reported published
    response,     \* the response sent, status 0 while none is sent
    net,          \* every outbound request made so far, with its answer
    call          \* a helper function called on its own: its arguments and what it returned

vars == <<env, now, pc, bills, ids, cursor, results, toPublish, i, publishedOk, response, net,
          call>>

Init ==
    /\ env \in [{"WEBFLOW_API_TOKEN", "LEGISCAN_API_KEY", "WEBFLOW_BILLS_COLLECTION_ID"}
                    -> BOOLEAN]
    /\ now = DateMonth(2024, 4)
    /\ pc = "start"
    /\ bills = <<>>
    /\ ids = [ok |-> FALSE, houseStatusIds |-> <<>>, senateStatusIds |-> <<>>,
              jurisdictionIds |-> <<>>]
    /\ cursor = 0
    /\ results = [processed |-> 0, updated |-> 0, skipped |-> 0, skipReasons |-> <<>>,
                  errors |-> <<>>, bills |-> <<>>]
    /\ toPublish = <<>>
    /\ i = 0
    /\ publishedOk = 0
    /\ response = [status |-> 0]
    /\ net = <<>>
    /\ call = [fn |-> "none"]

\* the outer catch: res.status(500)
Fail500 ==
    /\ response' = [status |-> 500, success |-> FALSE, message |-> "Bills sync failed"]
    /\ pc' = "done"

\* the environment test with the Webflow token alone
TokenMissing == ~env["WEBFLOW_API_TOKEN"]

\* !WEBFLOW_TOKEN || !LEGISCAN_API_KEY || !COLLECTION_ID
MissingVariables == \E v \in DOMAIN env : ~env[v]

\* a missing environment variable: 400 before anything else
MissingEnvironment ==
    /\ pc = "start"
    /\ MissingVariables
    /\ response' = [status |-> 400, success |-> FALSE,
                    error |-> "Missing environment variables"]
    /\ pc' = "done"
    /\ UNCHANGED <<call, env, now, bills, ids, cursor, results, toPublish, i, publishedOk, net>>

\* the list request answered OK
ListFetched ==
    /\ pc = "start"
    /\ ~MissingVariables
    /\ \E coll \in Collections :
          /\ \* item k of the list response carries the id k
             bills' = [k \in DOMAIN coll |-> [id |-> k, fieldData |-> coll[k]]]
          /\ net' = Append(net, [op |-> "list", answer |-> "ok"])
    /\ pc' = "schema"
    /\ UNCHANGED <<call, env, now, ids, cursor, results, toPublish, i, publishedOk, response>>

\* the list request rejected, answered not OK or with an unreadable body
ListFails ==
    /\ pc = "start"
    /\ ~MissingVariables
    /\ \E a \in {"throw", "notOK"} : net' = Append(net, [op |-> "list", answer |-> a])
    /\ Fail500
    /\ UNCHANGED <<call, env, now, bills, ids, cursor, results, toPublish, i, publishedOk>>

\* getOptionIdMaps returns the three maps
SchemaLoaded ==
    /\ pc = "schema"
    /\ \E fields \in Schemas :
          \E maps \in { getOptionIdMaps(fields) } :
              /\ maps.ok
              /\ ids' = maps
              /\ net' = Append(net, [op |-> "schema", answer |-> "ok"])
    /\ pc' = "loop"
    /\ UNCHANGED <<call, env, now, bills, cursor, results, toPublish, i, publishedOk, response>>

\* getOptionIdMaps throws: the request fails or a field or option is missing
SchemaFails ==
    /\ pc = "schema"
    /\ \/ \E a \in {"throw", "notOK"} : net' = Append(net, [op |-> "schema", answer |-> a])
       \/ \E fields \in Schemas :
             /\ ~getOptionIdMaps(fields).ok
             /\ net' = Append(net, [op |-> "schema", answer |-> "ok"])
    /\ Fail500
    /\ UNCHANGED <<call, env, now, bills, ids, cursor, results, toPublish, i, publishedOk>>

\* the record the loop takes next
InLoop == pc = "loop" /\ cursor < Len(bills)
bill == bills[cursor + 1]

\* for (const bill of bills) { results.processed++ ...
Visit(res) == [res EXCEPT !.processed = @ + 1]

Skip(reason) ==
    /\ results' = [Visit(results) EXCEPT
                      !.skipped = @ + 1,
                      !.skipReasons = Append(@, [id |-> bill.id, reason |-> reason])]
    /\ cursor' = cursor + 1
    /\ UNCHANGED <<call, env, now, pc, bills, ids, toPublish, i, publishedOk, response, net>>

SkipManualOverride ==
    /\ InLoop
    /\ bill.fieldData["manual-override"] = TRUE
    /\ Skip("Manual override enabled")

SkipNoNumber ==
    /\ InLoop
    /\ \E v \in { localsOf(bill) } :
          /\ v.manualOverride # TRUE
          /\ v.houseNumber = <<>> /\ v.senateNumber = <<>>
    /\ Skip("No HF/SF number")

\* the lookups made for a record under manual override too
LookedUnderOverride(v) == ~(v.houseNumber = <<>> /\ v.senateNumber = <<>>)

\* the record goes on to the lookups
Looked(v) ==
    /\ v.manualOverride # TRUE
    /\ ~(v.houseNumber = <<>> /\ v.senateNumber = <<>>)

\* the answers the source may give to a lookup of this run: every failure and
\* every bill for a lone record, the plain bill or an error for a short list,
\* the plain bill throughout a long list
LookupAnswers ==
    IF Len(bills) = 1 THEN { OkAnswer(b) : b \in Bills } \cup LookupFailures
    ELSE IF Len(bills) <= MaxBills THEN { OkAnswer(PlainBill), [status |-> "ERROR"] }
    ELSE { OkAnswer(PlainBill) }

PatchAnswers == IF Len(bills) <= MaxBills THEN {"ok", "notOK", "throw"} ELSE {"ok"}

\* the months the clock may show when read next, May or June of 2024: it
\* never runs backwards, and stands still over a list of several records
ClockReadings ==
    IF Len(bills) = 1
    THEN { m \in { DateMonth(2024, 4), DateMonth(2024, 5) } : m >= now }
    ELSE { now }

AnswersFor(state, billNumber) ==
    [1..Len(searchNumbers(state, billNumber)) -> LookupAnswers]

\* houseNumber && primaryNumber !== houseNumber
needHouse(v) == v.houseNumber # <<>> /\ v.primaryNumber # v.houseNumber

\* senateNumber && primaryNumber !== senateNumber
needSenate(v) == v.senateNumber # <<>> /\ v.primaryNumber # v.senateNumber

\* the answers to the lookups of the record: to the primary lookup, and to
\* the house and senate lookups where they are made
LookupChoices(v) ==
    { <<a1, a2, a3>> :
        a1 \in AnswersFor(v.state, v.primaryNumber),
        a2 \in IF needHouse(v) THEN AnswersFor(v.state, v.houseNumber) ELSE { <<>> },
        a3 \in IF needSenate(v) THEN AnswersFor(v.state, v.senateNumber) ELSE { <<>> } }

\* the senate info sn, after the requests sent for the primary and house infos
SenateLooked(v, p, h, sn, sent) ==
    IF needSenate(v) /\ ~sn.ok
    THEN [ok |-> FALSE, requests |-> sent \o sn.requests, error |-> sn.error]
    ELSE [ok |-> TRUE,
          requests |-> sent \o (IF needSenate(v) THEN sn.requests ELSE <<>>),
          primaryInfo |-> p.bill, houseInfo |-> h.bill, senateInfo |-> sn.bill]

\* the house info h: the senate lookup follows
HouseLooked(v, p, h, a3) ==
    IF needHouse(v) /\ ~h.ok
    THEN [ok |-> FALSE, requests |-> p.requests \o h.requests, error |-> h.error]
    ELSE SenateLooked(v, p, h,
                      IF needSenate(v) THEN fetchLegiScanBill(v.state, v.senateNumber, a3)
                      ELSE p,
                      p.requests \o (IF needHouse(v) THEN h.requests ELSE <<>>))

\* the primary info p: the house lookup follows
PrimaryLooked(v, p, a2, a3) ==
    IF ~p.ok THEN [ok |-> FALSE, requests |-> p.requests, error |-> p.error]
    ELSE HouseLooked(v, p,
                     IF needHouse(v) THEN fetchLegiScanBill(v.state, v.houseNumber, a2)
                     ELSE p,
                     a3)

\* the lookups of one record under the answers a1 (primary), a2 (house) and
\* a3 (senate): the requests made and the three infos, ok false when one of
\* them threw
lookups(v, a1, a2, a3) ==
    PrimaryLooked(v, fetchLegiScanBill(v.state, v.primaryNumber, a1), a2, a3)

Sent(item, requests) == [k \in DOMAIN requests |-> [item |-> item] @@ requests[k]]

\* a lookup throws: the catch records the error with the record's id
LookupFails ==
    /\ InLoop
    /\ \E v \in { localsOf(bill) } :
          /\ Looked(v)
          /\ \E a \in LookupChoices(v) :
                \E l \in { lookups(v, a[1], a[2], a[3]) } :
                    /\ ~l.ok
                    /\ net' = net \o Sent(v.id, l.requests)
                    /\ results' = [Visit(results) EXCEPT
                                      !.errors = Append(@, [billId |-> v.id,
                                                            error |-> l.error])]
    /\ cursor' = cursor + 1
    /\ UNCHANGED <<call, env, now, pc, bills, ids, toPublish, i, publishedOk, response>>

PatchRequest(item, updateData, answer) ==
    [op |-> "patch", item |-> item, data |-> updateData, answer |-> answer]

\* a rejected patch whose record is queued for publish all the same
RejectedYetQueued(v, updateData) ==
    [results |-> [Visit(results) EXCEPT
                     !.errors = Append(@, [billId |-> v.id,
                                           error |-> "Staging update failed",
                                           sentData |-> updateData])],
     toPublish |-> Append(toPublish, v.id)]

\* if (!staging.ok) { results.errors.push(...); continue; }
Rejected(v, updateData) ==
    [results |-> [Visit(results) EXCEPT
                     !.errors = Append(@, [billId |-> v.id,
                                           error |-> "Staging update failed",
                                           sentData |-> updateData])],
     toPublish |-> toPublish]

\* the patch request itself throws: the catch records the error
Thrown(v) ==
    [results |-> [Visit(results) EXCEPT
                     !.errors = Append(@, [billId |-> v.id, error |-> "fetch failed"])],
     toPublish |-> toPublish]

\* the patch is answered OK: the id is queued, updated is counted, and the
\* results.bills.push reads houseTimelineHtml, which is declared nowhere: the
\* ReferenceError goes to the catch, which records it with the record's id
Staged(v) ==
    [results |-> [Visit(results) EXCEPT
                     !.updated = @ + 1,
                     !.errors = Append(@, [billId |-> v.id,
                                           error |-> "houseTimelineHtml is not defined"])],
     toPublish |-> Append(toPublish, v.id)]

\* what the rest of the loop body leaves after the patch answered as answer
AfterPatch(answer, v, updateData) ==
    CASE answer = "notOK" -> Rejected(v, updateData)
      [] answer = "throw" -> Thrown(v)
      [] answer = "ok" -> Staged(v)

\* the payload is empty: "No changes to apply"; else the patch is sent and
\* answered as answer
Patch(answer, v, l, updateData) ==
    IF noChanges(updateData)
    THEN /\ net' = net \o Sent(v.id, l.requests)
         /\ results' = [Visit(results) EXCEPT
                           !.skipped = @ + 1,
                           !.skipReasons = Append(@, [id |-> v.id,
                                                      reason |-> "No changes to apply"])]
         /\ toPublish' = toPublish
    ELSE /\ net' = Append(net \o Sent(v.id, l.requests),
                          PatchRequest(v.id, updateData, answer))
         /\ results' = AfterPatch(answer, v, updateData).results
         /\ toPublish' = AfterPatch(answer, v, updateData).toPublish

\* the lookups succeed, the clock is read as t, the payload is built and the
\* patch request is answered as answer
PatchAnswered(answer) ==
    /\ InLoop
    /\ \E v \in { localsOf(bill) } :
          /\ Looked(v)
          /\ \E a \in LookupChoices(v), t \in ClockReadings :
                \E l \in { lookups(v, a[1], a[2], a[3]) } :
                    /\ l.ok
                    /\ now' = t
                    /\ \E updateData \in { buildUpdateData(v, l.primaryInfo, l.houseInfo,
                                                           l.senateInfo, ids, t) } :
                          Patch(answer, v, l, updateData)
    /\ cursor' = cursor + 1
    /\ UNCHANGED <<call, env, pc, bills, ids, i, publishedOk, response>>

PatchRejected ==
    /\ "notOK" \in PatchAnswers
    /\ PatchAnswered("notOK")

PatchThrows ==
    /\ "throw" \in PatchAnswers
    /\ PatchAnswered("throw")

Patched ==
    /\ "ok" \in PatchAnswers
    /\ PatchAnswered("ok")

(***************************************************************************)
(* The publish loop and the response                                       *)
(***************************************************************************)
InPublish == pc = "loop" /\ cursor = Len(bills) /\ i < Len(toPublish)

\* toPublish.slice(i, i + CHUNK)
slice == SubSeq(toPublish, i + 1, IF i + CHUNK < Len(toPublish) THEN i + CHUNK
                                  ELSE Len(toPublish))

PublishRequest(answer) == [op |-> "publish", itemIds |-> slice, answer |-> answer]

\* the publish request answered OK; the body lists the ids (as itemIds or as
\* items) or lists nothing
PublishOk ==
    /\ InPublish
    /\ \E listed \in {slice, <<>>} :
          /\ publishedOk' = publishedOk + Len(listed)
          /\ results' = [results EXCEPT
                            !.bills = Append(@, [publishedCount |-> Len(listed),
                                                 itemIds |-> IF listed # <<>> THEN listed
                                                             ELSE slice])]
    /\ net' = Append(net, PublishRequest("ok"))
    /\ i' = i + CHUNK
    /\ UNCHANGED <<call, env, now, pc, bills, ids, cursor, toPublish, response>>

\* a publish request answered not OK and the same chunk sent again
PublishRejectedRetried ==
    /\ InPublish
    /\ results' = [results EXCEPT
                      !.errors = Append(@, [error |-> "Publish failed",
                                            affectedItems |-> slice])]
    /\ net' = Append(net, PublishRequest("notOK"))
    /\ UNCHANGED <<call, env, now, pc, bills, ids, cursor, toPublish, i, publishedOk, response>>

\* the publish request answered not OK: one error entry for the chunk
PublishRejected ==
    /\ InPublish
    /\ results' = [results EXCEPT
                      !.errors = Append(@, [error |-> "Publish failed",
                                            affectedItems |-> slice])]
    /\ net' = Append(net, PublishRequest("notOK"))
    /\ i' = i + CHUNK
    /\ UNCHANGED <<call, env, now, pc, bills, ids, cursor, toPublish, publishedOk, response>>

\* publishItems throws (the fetch is rejected): nothing inside the loop
\* catches it, the outer catch answers 500
PublishThrows ==
    /\ InPublish
    /\ net' = Append(net, PublishRequest("throw"))
    /\ Fail500
    /\ UNCHANGED <<call, env, now, bills, ids, cursor, results, toPublish, i, publishedOk>>

\* return res.status(200).json({...})
Respond ==
    /\ pc = "loop" /\ cursor = Len(bills) /\ i >= Len(toPublish)
    /\ response' = [status |-> 200, success |-> TRUE,
                    summary |-> [totalBills |-> Len(bills),
                                 processed |-> results.processed,
                                 updated |-> results.updated,
                                 skipped |-> results.skipped,
                                 published |-> publishedOk,
                                 errors |-> Len(results.errors)],
                    updatedBills |-> results.bills,
                    skipReasons |-> results.skipReasons,
                    errors |-> results.errors]
    /\ pc' = "done"
    /\ UNCHANGED <<call, env, now, bills, ids, cursor, results, toPublish, i, publishedOk, net>>

Next ==
    \/ MissingEnvironment
    \/ ListFetched
    \/ ListFails
    \/ SchemaLoaded
    \/ SchemaFails
    \/ SkipManualOverride
    \/ SkipNoNumber
    \/ LookupFails
    \/ PatchRejected
    \/ PatchThrows
    \/ Patched
    \/ PublishOk
    \/ PublishRejected
    \/ PublishThrows
    \/ Respond

Spec == Init /\ [][Next]_vars

(***************************************************************************)
(* The helper functions called on their own                                *)
(*                                                                         *)
(* A behaviour calls one helper once, with arguments of its own, and keeps  *)
(* the arguments and the returned value in call; the handler does not run. *)
(***************************************************************************)
\* no helper was called yet
NotCalled == call.fn = "none"

\* the handler's frame, which a helper call leaves alone
HelperFrame ==
    UNCHANGED <<env, now, pc, bills, ids, cursor, results, toPublish, i, publishedOk,
                response, net>>

\* normalizeNumbers(rawHouse, rawSenate), on raw identifiers as an editor may
\* have typed them
normalizeNumbersCalled ==
    /\ NotCalled
    /\ \E h, s \in { <<>>, <<" ","-"," ">>, <<"h","f"," ","1">>, <<"H","F","-","1","2">>,
                     <<"H","F">>, <<"H","F","1","A">>, <<"S","F","2">>, <<"s","f","-","3">>,
                     <<"S","4">>, <<"H","R","3">> } :
          call' = [fn |-> "normalizeNumbers", rawHouse |-> h, rawSenate |-> s,
                   returned |-> normalizeNumbers(h, s)]
    /\ HelperFrame

\* computeStatusKey(billInfo, { state, legislativeYear }) in May or June of
\* 2024, on every status code and on last actions with and without the words
\* of a dead bill
computeStatusKeyCalled ==
    /\ NotCalled
    /\ \E code \in 0..6,
          la \in { <<>>, <<"R","e","f","e","r","r","e","d">>, <<"T","A","B","L","E","D">>,
                   <<"L","a","i","d"," ","o","n"," ","t","a","b","l","e">>,
                   <<"l","a","i","d"," ","o","n"," ","t","h","e"," ","T","a","b","l","e">>,
                   <<"P","o","s","t","p","o","n","e","d">>,
                   <<"I","n","d","e","f","i","n","i","t","e","l","y">>,
                   <<"S","i","n","e"," ","D","i","e">>, <<"D","i","e","d">>,
                   <<"W","i","t","h","d","r","a","w","n">>,
                   <<"x","S","t","r","i","c","k","e","n",".">> },
          state \in {"MN", "US"},
          year \in { <<>>, <<"x","2","4">>, <<"0">>, <<"2","0","2","4">>, <<"2","0","2","5">> },
          t \in { DateMonth(2024, 4), DateMonth(2024, 5) } :
          call' = [fn |-> "computeStatusKey",
                   billInfo |-> [status |-> code, last_action |-> la],
                   state |-> state, legislativeYear |-> year, nowMonth |-> t,
                   returned |-> computeStatusKey([status |-> code, last_action |-> la],
                                                 state, year, t)]
    /\ HelperFrame

\* document versions: PDF by MIME type or by link, or not PDF, with a link
\* of their own or without any, dated January or February 2024 or undated
DocumentVersions ==
    { [date |-> <<"2","0","2","4","-","0","1","-","0","1">>,
       mime |-> <<"a","p","p","l","i","c","a","t","i","o","n","/","P","D","F">>,
       state_link |-> <<"s","/","a">>, url |-> <<"u","/","a">>],
      [date |-> <<"2","0","2","4","-","0","1","-","0","1">>,
       mime |-> <<"a","p","p","l","i","c","a","t","i","o","n","/","p","d","f">>,
       state_link |-> <<>>, url |-> <<"u","/","b">>],
      [date |-> <<"2","0","2","4","-","0","2","-","0","1">>,
       mime |-> <<"t","e","x","t","/","h","t","m","l">>,
       state_link |-> <<>>, url |-> <<"u","/","c">>],
      [date |-> <<"2","0","2","4","-","0","2","-","0","1">>,
       mime |-> <<"t","e","x","t","/","h","t","m","l">>,
       state_link |-> <<"s","/","d",".","P","d","f">>, url |-> <<>>],
      [date |-> <<>>,
       mime |-> <<"p","d","f">>,
       state_link |-> <<"s","/","e">>, url |-> <<>>],
      [date |-> <<"2","0","2","4","-","0","2","-","0","1">>,
       mime |-> <<"a","p","p","l","i","c","a","t","i","o","n","/","p","d","f">>,
       state_link |-> <<>>, url |-> <<>>],
      [date |-> <<"2","0","2","4","-","0","1","-","0","1">>,
       mime |-> <<>>,
       state_link |-> <<>>, url |-> <<>>] }

\* pickBestTextUrl(info) on up to three versions and a bill with or without
\* links of its own
pickBestTextUrlCalled ==
    /\ NotCalled
    /\ \E n \in 0..3 :
          \E texts \in [1..n -> DocumentVersions],
             top \in { [state_link |-> <<>>, url |-> <<>>],
                       [state_link |-> <<"s","/","t">>, url |-> <<"u","/","t">>],
                       [state_link |-> <<>>, url |-> <<"u","/","t">>] } :
              call' = [fn |-> "pickBestTextUrl",
                       info |-> [texts |-> texts, state_link |-> top.state_link, url |-> top.url],
                       returned |-> pickBestTextUrl([texts |-> texts,
                                                     state_link |-> top.state_link,
                                                     url |-> top.url])]
    /\ HelperFrame

\* history events: on March 1 or March 5 of 2024 or undated, with a plain
\* action or one holding the characters that HTML reserves
HistoryEvents ==
    { [date |-> d, action |-> a] :
        d \in { <<"2","0","2","4","-","0","3","-","0","1">>,
                <<"2","0","2","4","-","0","3","-","0","5">>, <<>> },
        a \in { <<"R","e","a","d">>, <<"A","&","B","<","i",">">>, <<"'","q","\"">> } }

\* bills without history: the last action and its date, and the status date,
\* present or empty; one date is no date and holds reserved characters
LastActions ==
    { [history |-> <<>>, last_action |-> a, last_action_date |-> d, status_date |-> sd] :
        a \in { <<>>, <<"F","i","l","e","d">>, <<"A","&","B","<","i",">">> },
        d \in { <<>>, <<"2","0","2","4","-","0","3","-","0","5">>, <<"n","<","a","&","'">> },
        sd \in { <<>>, <<"2","0","2","4","-","0","3","-","0","1">> } }

\* buildTimelineHtml(info) on a bill without history, on a history of up to
\* three events, and on one event whose date is no date
buildTimelineHtmlCalled ==
    /\ NotCalled
    /\ \E info \in LastActions
                  \cup { [history |-> h, last_action |-> <<"F","i","l","e","d">>,
                          last_action_date |-> <<>>, status_date |-> <<>>] :
                            h \in UNION { [1..n -> HistoryEvents] : n \in 1..3 }
                                    \cup { << [date |-> <<"n","<","a","&","'">>,
                                               action |-> <<"R","e","a","d">>] >> } } :
          call' = [fn |-> "buildTimelineHtml", info |-> info,
                   returned |-> buildTimelineHtml(info)]
    /\ HelperFrame

\* three legislators, each as a generic (0), primary (1), co- (2) or joint (3)
\* sponsor; two of them carry reserved characters in name and party
SponsorEntries ==
    { [name |-> who.name, party |-> who.party, role_id |-> who.role_id,
       role |-> <<>>, chamber |-> <<>>, district |-> <<>>, sponsor_type_id |-> type] :
        who \in { [name |-> <<"A","n","n">>, party |-> <<"R">>, role_id |-> 1],
                  [name |-> <<"B","<","b",">","&">>, party |-> <<"D","&","F","'">>, role_id |-> 2],
                  [name |-> <<"O","'","\"","C">>, party |-> <<>>, role_id |-> 0] },
        type \in 0..3 }

\* entries of one legislator as primary sponsor that differ in party, in
\* district or in role only (two of them hold the separator of the key in
\* their text), and her entry as joint sponsor
Namesakes ==
    { [name |-> <<"A","n","n">>, party |-> e.party, role_id |-> e.role_id,
       role |-> <<>>, chamber |-> <<>>, district |-> e.district,
       sponsor_type_id |-> e.type] :
        e \in { [party |-> <<"R">>, district |-> <<>>, role_id |-> 1, type |-> 1],
                [party |-> <<"R">>, district |-> <<>>, role_id |-> 2, type |-> 1],
                [party |-> <<"R">>, district |-> <<"5">>, role_id |-> 1, type |-> 1],
                [party |-> <<"D">>, district |-> <<>>, role_id |-> 1, type |-> 1],
                [party |-> <<"I","|","D">>, district |-> <<"7">>, role_id |-> 1, type |-> 1],
                [party |-> <<"I">>, district |-> <<"D","|","7">>, role_id |-> 1, type |-> 1],
                [party |-> <<"R">>, district |-> <<>>, role_id |-> 1, type |-> 3] } }

\* one primary sponsor whose role id, role text, chamber text and district
\* each resolve to a prefix or do not
PrefixSources ==
    { [name |-> <<"A","n","n">>, party |-> <<>>, sponsor_type_id |-> 1,
       role_id |-> id, role |-> role, chamber |-> ch, district |-> dist] :
        id \in 0..2,
        role \in { <<>>, <<"S","e","n">>, <<"r","e","p","r","e","s","e","n","t","a","t","i","v","e">>,
                   <<"c","l","e","r","k">> },
        ch \in { <<>>, <<"H">>, <<"s","e","n","a","t","e">> },
        dist \in { <<>>, <<"1","2","A">>, <<"1","2","b">>, <<"7">>, <<"1","2","C">>,
                   <<"1","2","3","4">> } }

\* buildSponsorsHtml(info, { state }) on a list of up to three sponsors for
\* the state, and on one sponsor for the state and for the federal level
buildSponsorsHtmlCalled ==
    /\ NotCalled
    /\ \E given \in ((UNION { [1..n -> SponsorEntries] : n \in 0..3 }
                          \cup UNION { [1..n -> Namesakes] : n \in 2..3 }) \X {"MN"})
                     \cup ({ <<e>> : e \in PrefixSources } \X {"MN", "US"}) :
          call' = [fn |-> "buildSponsorsHtml", info |-> [sponsors |-> given[1]],
                   state |-> given[2],
                   returned |-> buildSponsorsHtml([sponsors |-> given[1]], given[2]),
                   \* the function works on [...info.sponsors] and on what
                   \* filter returns: the list given is as it was
                   sponsorsAfter |-> given[1]]
    /\ HelperFrame

\* the longest of the short texts given to createSlug
MaxText == 4

\* k letters
Letters(k) == [j \in 1..k |-> "a"]

\* createSlug(text) on every text of up to MaxText characters out of a, B, 7,
\* hyphen, space and !, and on texts about SlugMax letters long that go on
\* with up to two of these characters; the result is given to createSlug again
createSlugCalled ==
    /\ NotCalled
    /\ \E text \in UNION { [1..n -> {"a", "B", "7", "-", " ", "!"}] : n \in 0..MaxText }
                   \cup { Letters(k) \o t :
                            k \in (SlugMax - 3)..(SlugMax + 2),
                            t \in UNION { [1..n -> {"a", "B", "7", "-", " ", "!"}] : n \in 0..2 } } :
          call' = [fn |-> "createSlug", text |-> text, returned |-> createSlug(text),
                   returnedAgain |-> createSlug(createSlug(text))]
    /\ HelperFrame

HelperNext ==
    \/ createSlugCalled
    \/ normalizeNumbersCalled
    \/ computeStatusKeyCalled
    \/ pickBestTextUrlCalled
    \/ buildTimelineHtmlCalled
    \/ buildSponsorsHtmlCalled

\* the helpers are called in a complete environment
HelperInit == Init /\ \A v \in DOMAIN env : env[v]

Helpers == HelperInit /\ [][HelperNext]_vars

(***************************************************************************)
(* Properties of the handler                                               *)
(*                                                                         *)
(* net keeps every outbound request of the run with its answer, so the     *)
(* properties below read what was sent from it.                            *)
(***************************************************************************)
\* the places in the log of the patch, lookup and publish requests
Patches == { k \in DOMAIN net : net[k].op = "patch" }
Lookups == { k \in DOMAIN net : net[k].op = "getBill" }
Publishes == { k \in DOMAIN net : net[k].op = "publish" }

\* the ids sent in some publish request
PublishedIds == UNION { Range(net[k].itemIds) : k \in Publishes }

\* the ids whose patch request was answered OK
PatchedOkIds == { net[k].item : k \in { j \in Patches : net[j].answer = "ok" } }

\* the bill the source returned first, and last, for the record id
BillAnswersOf(id) == { k \in Lookups : net[k].item = id /\ IsBillAnswer(net[k].answer) }
FirstInfoOf(id) ==
    LET answered == BillAnswersOf(id)
    IN  net[CHOOSE k \in answered : \A j \in answered : k <= j].answer.bill
LastInfoOf(id) ==
    LET answered == BillAnswersOf(id)
    IN  net[CHOOSE k \in answered : \A j \in answered : j <= k].answer.bill

\* the error entries of the per-record loop, and those of the publish loop
RecordErrors == { k \in DOMAIN results.errors : "billId" \in DOMAIN results.errors[k] }
ChunkErrors == { k \in DOMAIN results.errors : "affectedItems" \in DOMAIN results.errors[k] }

\* the run got as far as the per-record loop
LoopEntered == ids.ok

\* the identifiers of a record as the handler is said to normalize them:
\* upper case without spaces and hyphens, an HF number standing alone in the
\* senate field moved to the house field, an SF number standing alone in the
\* house field moved to the senate field
StatedNumbers(fd) ==
    LET h == norm(fd["house-file-number"])
        s == norm(fd["senate-file-number"])
        toHouse == h = <<>> /\ MatchCode(s, <<"H","F">>)
        toSenate == ~toHouse /\ s = <<>> /\ MatchCode(h, <<"S","F">>)
    IN  [house |-> IF toHouse THEN s ELSE IF toSenate THEN <<>> ELSE h,
         senate |-> IF toHouse THEN <<>> ELSE IF toSenate THEN h ELSE s,
         senateEmptied |-> toHouse,
         houseEmptied |-> toSenate]

\* the record is one the loop skips
Skips(b) ==
    \/ b.fieldData["manual-override"] = TRUE
    \/ StatedNumbers(b.fieldData).house = <<>> /\ StatedNumbers(b.fieldData).senate = <<>>

\* C1: a failure on one record adds an error entry with the record's id and
\* never stops the loop, so that once the loop was entered the run ends with
\* processed equal to the number of listed records and the answer 200 with
\* the summary.
C1_LoopEndsWithSummary ==
    /\ \A k \in Patches :
          net[k].answer # "ok" =>
              \E e \in RecordErrors : results.errors[e].billId = net[k].item
    /\ results.processed = cursor
    /\ (LoopEntered /\ pc = "done") =>
          /\ results.processed = Len(bills)
          /\ response.status = 200
          /\ response.summary.processed = Len(bills)

\* C2: a record id is queued for publish, and sent in a publish request,
\* only if the record's patch request was issued in this run and answered
\* OK; a skipped record, a record whose lookup failed and a record whose
\* patch was rejected are in no publish request.
C2_PublishedOnlyIfPatched ==
    /\ Range(toPublish) \subseteq PatchedOkIds
    /\ \A k \in Publishes :
          \A id \in Range(net[k].itemIds) :
              \E j \in Patches : j < k /\ net[j].item = id /\ net[j].answer = "ok"
    /\ \A r \in Range(results.skipReasons) : r.id \notin Range(toPublish) \cup PublishedIds
    /\ \A k \in Patches :
          net[k].answer # "ok" => net[k].item \notin Range(toPublish) \cup PublishedIds
    /\ \A id \in 1..cursor :
          (\A k \in Patches : net[k].item # id) => id \notin Range(toPublish) \cup PublishedIds

\* a patch was rejected, another was answered OK and its id was published
C2_Witness ==
    /\ \E k \in Patches : net[k].answer = "notOK"
    /\ \E k \in Publishes : net[k].answer = "ok" /\ net[k].itemIds # <<>>

\* C3: for a record under manual override, or with both identifiers empty
\* after normalization, no lookup, no patch and no publish is issued; skipped
\* grows by one and one skip reason with the record's id is recorded for
\* each such record, and no error entry.
C3_SkippedUntouched ==
    /\ \A id \in 1..cursor :
          Skips(bills[id]) =>
              /\ \A k \in Lookups \cup Patches : net[k].item # id
              /\ id \notin Range(toPublish) \cup PublishedIds
              /\ Cardinality({ k \in DOMAIN results.skipReasons :
                                   results.skipReasons[k].id = id }) = 1
              /\ \A e \in RecordErrors : results.errors[e].billId # id
    /\ results.skipped = Cardinality({ id \in 1..cursor : Skips(bills[id]) })
    /\ Len(results.skipReasons) = results.skipped

\* the run ended after skipping a record under manual override and a record
\* whose identifiers normalize to nothing
C3_Witness ==
    /\ pc = "done" /\ response.status = 200
    /\ \E id \in 1..cursor : bills[id].fieldData["manual-override"] = TRUE
    /\ \E id \in 1..cursor :
          /\ bills[id].fieldData["manual-override"] # TRUE
          /\ bills[id].fieldData["senate-file-number"] # <<>>
          /\ Skips(bills[id])

\* ^[HS]F[-\s]?\d+$ as the pattern reads, capital letters only
CodePattern(n) ==
    /\ Len(n) >= 3
    /\ n[1] \in {"H", "S"}
    /\ n[2] = "F"
    /\ \/ AllDigits(Drop(n, 2))
       \/ n[3] \in {"-", " "} /\ AllDigits(Drop(n, 3))

\* one of untitled, tbd, placeholder
WordPattern(n) ==
    n \in { <<"u","n","t","i","t","l","e","d">>, <<"t","b","d">>,
            <<"p","l","a","c","e","h","o","l","d","e","r">> }

\* the name of the record behind the patch request k, trimmed, and its primary
\* bill number
NameOf(k) == trim(bills[net[k].item].fieldData["name"])
PrimaryNumberOf(k) ==
    OrElse(StatedNumbers(bills[net[k].item].fieldData).house,
           StatedNumbers(bills[net[k].item].fieldData).senate)

\* the title the source gave for the record behind the patch request k, or
\* the bill number when it gave none
SourceTitleOf(k) == OrElse(FirstInfoOf(net[k].item).title, PrimaryNumberOf(k))

\* the patch request k carries a name exactly when placeholder holds, and
\* then the source title or the bill number
NameRule(k, placeholder) ==
    /\ ("name" \in DOMAIN net[k].data.fieldData) <=> placeholder
    /\ "name" \in DOMAIN net[k].data.fieldData =>
          net[k].data.fieldData["name"] = SourceTitleOf(k)

\* C4, as stated: the patch carries a name if and only if the existing name
\* is empty after trimming, equals the primary bill number without regard to
\* case, matches ^[HS]F[-\s]?\d+$ or is one of untitled, tbd, placeholder;
\* the new name is the source title, or the bill number when that is empty.
C4_NameOnlyForPlaceholder ==
    \A k \in Patches :
        NameRule(k, \/ NameOf(k) = <<>>
                    \/ toLowerCase(NameOf(k)) = toLowerCase(PrimaryNumberOf(k))
                    \/ CodePattern(NameOf(k))
                    \/ WordPattern(NameOf(k)))

\* C4, with the pattern and the words matched without regard to case: the
\* patch carries a name if and only if the existing name is empty after
\* trimming, equals the primary bill number, matches ^[HS]F[-\s]?\d+$ or is
\* one of untitled, tbd, placeholder, each without regard to case; the new
\* name is the source title, or the bill number when that is empty.
C4_NameOnlyForPlaceholderAnyCase ==
    \A k \in Patches :
        NameRule(k, \/ NameOf(k) = <<>>
                    \/ toLowerCase(NameOf(k)) = toLowerCase(PrimaryNumberOf(k))
                    \/ CodePattern(toUpperCase(NameOf(k)))
                    \/ WordPattern(toLowerCase(NameOf(k))))

\* a name in lower case, which matches the pattern only without regard to
\* case and is not the bill number, was overwritten
C4_Witness ==
    \E k \in Patches :
        /\ "name" \in DOMAIN net[k].data.fieldData
        /\ CodePattern(toUpperCase(NameOf(k))) /\ ~CodePattern(NameOf(k))
        /\ toLowerCase(NameOf(k)) # toLowerCase(PrimaryNumberOf(k))

\* the fields of one chamber in the patch request k: number is the chamber's
\* identifier, emptied tells whether a correction emptied it, info is the
\* chamber's bill
ChamberRule(k, number, emptied, info, statusName, linkName) ==
    LET data == net[k].data.fieldData
        nn == StatedNumbers(bills[net[k].item].fieldData)
    IN  /\ emptied =>
              /\ "house-file-number" \in DOMAIN data
              /\ "senate-file-number" \in DOMAIN data
              /\ data["house-file-number"] = nn.house
              /\ data["senate-file-number"] = nn.senate
              /\ linkName \in DOMAIN data
              /\ data[linkName] = Null
        /\ number # <<>> =>
              /\ statusName \in DOMAIN data
              /\ (linkName \in DOMAIN data) <=> (pickBestTextUrl(info) # Null)
              /\ linkName \in DOMAIN data => data[linkName] = pickBestTextUrl(info)
        /\ (number = <<>> /\ ~emptied) =>
              /\ linkName \notin DOMAIN data
              /\ statusName \notin DOMAIN data

\* C5: when a transposition correction empties a chamber's identifier the
\* patch writes the corrected pair and sets the chamber's link to null; when
\* the identifier is present the status is set and the link is set only if
\* one was found; when it is absent without a correction neither the link
\* nor the status is in the patch.
C5_ChamberFields ==
    \A k \in Patches :
        /\ ChamberRule(k, StatedNumbers(bills[net[k].item].fieldData).house,
                       StatedNumbers(bills[net[k].item].fieldData).houseEmptied,
                       FirstInfoOf(net[k].item),
                       "house-file-status", "house-file-link")
        /\ ChamberRule(k, StatedNumbers(bills[net[k].item].fieldData).senate,
                       StatedNumbers(bills[net[k].item].fieldData).senateEmptied,
                       LastInfoOf(net[k].item),
                       "senate-file-status", "senate-file-link")

\* a patch cleared the senate link after the correction of an HF number found
\* in the senate field, and wrote the house link that was found
C5_Witness ==
    \E k \in Patches :
        /\ StatedNumbers(bills[net[k].item].fieldData).senateEmptied
        /\ "senate-file-link" \in DOMAIN net[k].data.fieldData
        /\ net[k].data.fieldData["senate-file-link"] = Null
        /\ "house-file-link" \in DOMAIN net[k].data.fieldData
        /\ net[k].data.fieldData["house-file-link"] # Null

\* the title the patch request k resolves: the kept name, else the source
\* title, else the bill number
ResolvedTitleOf(k) ==
    IF \/ NameOf(k) = <<>>
       \/ toLowerCase(NameOf(k)) = toLowerCase(PrimaryNumberOf(k))
       \/ CodePattern(toUpperCase(NameOf(k)))
       \/ WordPattern(toLowerCase(NameOf(k)))
    THEN SourceTitleOf(k)
    ELSE NameOf(k)

\* the present identifiers of the record behind the patch request k, joined
\* by a hyphen, in lower case
IdentifiersOf(k) ==
    LET nn == StatedNumbers(bills[net[k].item].fieldData)
    IN  toLowerCase(IF nn.house # <<>> /\ nn.senate # <<>>
                    THEN nn.house \o <<"-">> \o nn.senate
                    ELSE nn.house \o nn.senate)

\* the patch request k carries a slug exactly when year and the resolved
\* title are not empty, and then <year>--<identifiers>--<createSlug(title)>, at
\* the top level and not inside fieldData
SlugRule(k, year) ==
    /\ ("slug" \in DOMAIN net[k].data) <=> (year # <<>> /\ ResolvedTitleOf(k) # <<>>)
    /\ "slug" \in DOMAIN net[k].data =>
          net[k].data.slug = year \o <<"-","-">> \o IdentifiersOf(k) \o <<"-","-">>
                                 \o createSlug(ResolvedTitleOf(k))
    /\ "slug" \notin DOMAIN net[k].data.fieldData

\* C6, as stated: the patch carries a slug if and only if the record has a
\* non-empty legislative year and a resolved title; the slug is
\* <year>--<identifiers>--<createSlug(title)>, at the top level of the patch
\* and never inside fieldData.
C6_StructuredSlug ==
    \A k \in Patches : SlugRule(k, bills[net[k].item].fieldData["legislative-year"])

\* C6, with the legislative year read without the blanks around it: the patch
\* carries a slug if and only if the record's legislative year is not empty
\* once trimmed and there is a resolved title; the slug is
\* <trimmed year>--<identifiers>--<createSlug(title)>, at the top level of the
\* patch and never inside fieldData.
C6_StructuredSlugOfTrimmedYear ==
    \A k \in Patches : SlugRule(k, trim(bills[net[k].item].fieldData["legislative-year"]))

\* a patch carried a slug built from a year stored with a blank before it,
\* both identifiers and a title taken from the source
C6_Witness ==
    \E k \in Patches :
        /\ "slug" \in DOMAIN net[k].data
        /\ "name" \in DOMAIN net[k].data.fieldData
        /\ trim(bills[net[k].item].fieldData["legislative-year"])
               # bills[net[k].item].fieldData["legislative-year"]
        /\ StatedNumbers(bills[net[k].item].fieldData).house # <<>>
        /\ StatedNumbers(bills[net[k].item].fieldData).senate # <<>>

\* C7: a failed publish of a chunk, answered not OK or thrown, is recorded as
\* one error entry listing the chunk's ids, leaves the remaining chunks to be
\* sent, and the run still answers 200 with the summary.
C7_FailedPublishRecorded ==
    \A k \in Publishes :
        net[k].answer # "ok" =>
            /\ Cardinality({ e \in ChunkErrors :
                                 results.errors[e].affectedItems = net[k].itemIds }) = 1
            /\ pc = "done" =>
                  /\ response.status = 200
                  /\ Range(toPublish) \subseteq PublishedIds

\* C8: at most one patch request is issued per record and at most one
\* publish request per chunk; no lookup query, patch or publish is repeated.
C8_NoRetry ==
    /\ Cardinality({ net[k].item : k \in Patches }) = Cardinality(Patches)
    /\ Cardinality({ <<net[k].item, net[k].bill>> : k \in Lookups }) = Cardinality(Lookups)
    /\ \A j, k \in Publishes :
          j # k => Range(net[j].itemIds) \cap Range(net[k].itemIds) = {}
    /\ \A k \in Patches : \A j \in Lookups : net[j].item = net[k].item => j < k

\* the run ended after a rejected patch and a failed publish
C8_Witness ==
    /\ pc = "done" /\ response.status = 200
    /\ \E k \in Patches : net[k].answer = "notOK"
    /\ \E k \in Publishes : net[k].answer = "notOK"

\* C9: if the Webflow token, the LegiScan key or the collection id is
\* missing, the handler answers 400 with success false and makes no outbound
\* request; no record is counted as processed.
C9_MissingEnvironmentAnswers400 ==
    (\E v \in {"WEBFLOW_API_TOKEN", "LEGISCAN_API_KEY", "WEBFLOW_BILLS_COLLECTION_ID"} :
         ~env[v]) =>
        /\ net = <<>>
        /\ bills = <<>>
        /\ results.processed = 0
        /\ response.status \in {0, 400}
        /\ pc = "done" => response.status = 400 /\ response.success = FALSE

\* the handler answered 400 with only the LegiScan key missing
C9_Witness ==
    /\ env["WEBFLOW_API_TOKEN"] /\ env["WEBFLOW_BILLS_COLLECTION_ID"]
    /\ ~env["LEGISCAN_API_KEY"]
    /\ pc = "done" /\ response.status = 400

\* C10: the publish phase starts only after the last record was processed;
\* it sends the queued ids in queue order as consecutive chunks of at most
\* 100 ids, so that every queued id is in exactly one publish request and no
\* id is sent that was not queued.
C10_EveryQueuedIdPublished ==
    LET sent == SelectSeq(net, LAMBDA e : e.op = "publish")
        ids_ == Flatten([k \in DOMAIN sent |-> sent[k].itemIds])
    IN  /\ sent # <<>> => cursor = Len(bills)
        /\ Len(ids_) <= Len(toPublish) /\ ids_ = SubSeq(toPublish, 1, Len(ids_))
        /\ \A k \in DOMAIN sent :
              /\ Len(sent[k].itemIds) \in 1..CHUNK
              /\ k < Len(sent) => Len(sent[k].itemIds) = CHUNK
        /\ (LoopEntered /\ pc = "done") =>
              \A id \in Range(toPublish) :
                  Cardinality({ k \in DOMAIN sent : id \in Range(sent[k].itemIds) }) = 1

(***************************************************************************)
(* Properties of the helper functions                                      *)
(***************************************************************************)
\* ^HF\d+$ or ^SF\d+$ as the pattern reads: the letter, F, then digits only
StatedCode(s, letter) ==
    /\ Len(s) >= 3
    /\ s[1] = letter /\ s[2] = "F"
    /\ \A k \in 3..Len(s) : s[k] \in {"0","1","2","3","4","5","6","7","8","9"}

\* C11: with both inputs in upper case and without blanks and hyphens, an
\* ^HF\d+$ value in the senate field beside an empty house field moves to the
\* house field and corrections holds both fields; likewise an ^SF\d+$ value in
\* the house field beside an empty senate field; in every other case each
\* value stays in its field and corrections is empty.
C11_NormalizeNumbers ==
    call.fn = "normalizeNumbers" =>
        LET h == norm(call.rawHouse)
            s == norm(call.rawSenate)
            r == call.returned
        IN  IF h = <<>> /\ StatedCode(s, "H")
            THEN /\ r.houseNumber = s /\ r.senateNumber = <<>>
                 /\ DOMAIN r.corrections = {"house-file-number", "senate-file-number"}
                 /\ r.corrections["house-file-number"] = s
                 /\ r.corrections["senate-file-number"] = <<>>
            ELSE IF s = <<>> /\ StatedCode(h, "S")
            THEN /\ r.houseNumber = <<>> /\ r.senateNumber = h
                 /\ DOMAIN r.corrections = {"house-file-number", "senate-file-number"}
                 /\ r.corrections["house-file-number"] = <<>>
                 /\ r.corrections["senate-file-number"] = h
            ELSE /\ r.houseNumber = h /\ r.senateNumber = s
                 /\ DOMAIN r.corrections = {}

\* an SF number typed in lower case with a hyphen into the house field, beside
\* a senate field holding only blanks and a hyphen, was moved to the senate
\* field
C11_Witness ==
    /\ call.fn = "normalizeNumbers"
    /\ call.rawHouse = <<"s","f","-","3">> /\ call.rawSenate = <<" ","-"," ">>
    /\ call.returned.senateNumber = <<"S","F","3">>
    /\ call.returned.houseNumber = <<>>

\* C12: computeStatusKey returns Passed whenever the status code is 4 and
\* Failed whenever it is 5 or 6, whatever the last action, the jurisdiction,
\* the legislative year and the current date.
C12_PassedAndFailedFirst ==
    call.fn = "computeStatusKey" =>
        /\ call.billInfo.status = 4 => call.returned = <<"P","a","s","s","e","d">>
        /\ call.billInfo.status \in {5, 6} => call.returned = <<"F","a","i","l","e","d">>

\* a bill with status code 4 whose last action says tabled, in Minnesota after
\* the cutoff of its year, was labelled Passed
C12_Witness ==
    /\ call.fn = "computeStatusKey"
    /\ call.billInfo.status = 4
    /\ call.billInfo.last_action = <<"T","A","B","L","E","D">>
    /\ call.state = "MN" /\ call.legislativeYear = <<"2","0","2","4">>
    /\ call.nowMonth = 2024 * 12 + 5
    /\ call.returned = <<"P","a","s","s","e","d">>

\* the text holds the word, whatever the case of its letters
HasWord(text, word) ==
    \E k \in 0..(Len(text) - Len(word)) :
        \A j \in 1..Len(word) : toLowerChar(text[k + j]) = word[j]

\* the last action holds one of the words of a dead bill, as they are listed
SaysDead(text) ==
    \E w \in { <<"t","a","b","l","e","d">>,
                <<"l","a","i","d"," ","o","n"," ","t","a","b","l","e">>,
                <<"l","a","i","d"," ","o","n"," ","t","h","e"," ","t","a","b","l","e">>,
                <<"p","o","s","t","p","o","n","e","d">>,
                <<"i","n","d","e","f","i","n","i","t","e","l","y">>,
                <<"s","i","n","e"," ","d","i","e">>,
                <<"d","i","e","d">>,
                <<"w","i","t","h","d","r","a","w","n">>,
                <<"s","t","r","i","c","k","e","n">> } :
        HasWord(text, w)

\* C13: for a status code other than 4, 5 and 6, computeStatusKey returns
\* Tabled whenever the last action holds, in any case of letters, one of
\* tabled, laid on table, laid on the table, postponed, indefinitely, sine die,
\* died, withdrawn, stricken, in every jurisdiction and with or without a
\* legislative year.
C13_DeadWordsTabled ==
    (/\ call.fn = "computeStatusKey"
     /\ call.billInfo.status \notin {4, 5, 6}
     /\ SaysDead(call.billInfo.last_action))
        => call.returned = <<"T","a","b","l","e","d">>

\* the label the cutoff rule gives when the last action holds no word of a
\* dead bill and the code is not 4, 5 or 6; yearKnown tells whether the
\* legislative year counts as known
CutoffRule(yearKnown) ==
    (/\ call.fn = "computeStatusKey"
     /\ call.billInfo.status \notin {4, 5, 6}
     /\ ~SaysDead(call.billInfo.last_action))
        => LET digits == /\ call.legislativeYear # <<>>
                         /\ \A k \in DOMAIN call.legislativeYear :
                               call.legislativeYear[k] \in {"0","1","2","3","4","5","6","7","8","9"}
               tabled == /\ call.state = "MN"
                         /\ digits /\ yearKnown
                         /\ call.nowMonth >= DigitsValue(call.legislativeYear) * 12 + 5
                         /\ call.billInfo.status \in {1, 2, 3}
           IN  /\ tabled <=> call.returned = <<"T","a","b","l","e","d">>
               /\ ~tabled <=> call.returned = <<"A","c","t","i","v","e">>

\* C14, as stated: without a word of a dead bill and with a code other than
\* 4, 5, 6, computeStatusKey returns Tabled if and only if the jurisdiction is
\* MN, the legislative year parses to a number, the current date is on or
\* after June 1 of that year and the code is 1, 2 or 3; otherwise Active.
C14_CutoffRule == CutoffRule(TRUE)

\* C14, with the year 0 counted as no year: without a word of a dead bill and
\* with a code other than 4, 5, 6, computeStatusKey returns Tabled if and only
\* if the jurisdiction is MN, the legislative year parses to a number other
\* than 0, the current date is on or after June 1 of that year and the code is
\* 1, 2 or 3; otherwise Active.
C14_CutoffRuleOfNonZeroYear == CutoffRule(DigitsValue(call.legislativeYear) # 0)

\* a Minnesota bill of 2024 with code 2 and a plain last action was labelled
\* Tabled in June 2024
C14_Witness ==
    /\ call.fn = "computeStatusKey"
    /\ call.billInfo.status = 2
    /\ call.billInfo.last_action = <<"R","e","f","e","r","r","e","d">>
    /\ call.state = "MN" /\ call.legislativeYear = <<"2","0","2","4">>
    /\ call.nowMonth = 2024 * 12 + 5
    /\ call.returned = <<"T","a","b","l","e","d">>

\* the link a document version, or the bill itself, carries: the state link,
\* else the url, else none
StatedLink(t) ==
    IF t.state_link # <<>> THEN t.state_link ELSE IF t.url # <<>> THEN t.url ELSE Null

\* the version is a PDF: its MIME type holds pdf or its link ends in .pdf
StatedPdf(t) ==
    \/ HasWord(t.mime, <<"p","d","f">>)
    \/ LET u == StatedLink(t)
       IN  /\ u # Null /\ Len(u) >= 4
           /\ HasWord(SubSeq(u, Len(u) - 3, Len(u)), <<".","p","d","f">>)

C16_FallbackChain ==
    call.fn = "pickBestTextUrl" =>
        /\ call.info.texts = <<>> => call.returned = StatedLink(call.info)
        /\ call.returned = Null => StatedLink(call.info) = Null

\* the places where the token stands in the text
PlacesOf(text, token) ==
    { k \in 1..(Len(text) - Len(token) + 1) : SubSeq(text, k, k + Len(token) - 1) = token }

\* the date as the timeline prints it
PrintedDate(d) ==
    IF d = <<"2","0","2","4","-","0","3","-","0","1">>
    THEN <<"M","a","r"," ","1",","," ","2","0","2","4">>
    ELSE IF d = <<"2","0","2","4","-","0","3","-","0","5">>
    THEN <<"M","a","r"," ","5",","," ","2","0","2","4">>
    ELSE <<>>

\* an action as it is printed, with its reserved characters as entities
PrintedAction(a) ==
    IF a = <<"A","&","B","<","i",">">>
    THEN <<"A","&","a","m","p",";","B","&","l","t",";","i","&","g","t",";">>
    ELSE IF a = <<"'","q","\"">>
    THEN <<"&","#","3","9",";","q","&","q","u","o","t",";">>
    ELSE a

\* C17: with a history whose dates are dates or missing, buildTimelineHtml
\* emits one block per distinct date, the blocks ordered by date descending
\* (an undated block last); a date with a single action prints it without a
\* bullet, a date with k > 1 actions prints k bulleted lines in its one block,
\* and every action of the history is printed exactly once.
C17_TimelineBlocks ==
    (/\ call.fn = "buildTimelineHtml"
     /\ call.info.history # <<>>
     /\ \A k \in DOMAIN call.info.history :
           call.info.history[k].date = <<>> \/ PrintedDate(call.info.history[k].date) # <<>>)
        => LET hist == call.info.history
               out == call.returned
               dates == { hist[k].date : k \in DOMAIN hist }
               under(d) == { k \in DOMAIN hist : hist[k].date = d }
               several == { d \in dates : Cardinality(under(d)) > 1 }
               bullets == UNION { under(d) : d \in several }
           IN  /\ Cardinality(PlacesOf(out, <<"<","p",">">>)) = Cardinality(dates)
               /\ Cardinality(PlacesOf(out, <<"<","/","p",">">>)) = Cardinality(dates)
               /\ \A d \in dates \ {<<>>} :
                     Cardinality(PlacesOf(out, <<"<","s","t","r","o","n","g",">">>
                                                   \o PrintedDate(d))) = 1
               /\ \A d, e \in dates \ {<<>>} :
                     DateOf(d).t > DateOf(e).t =>
                         \A x \in PlacesOf(out, PrintedDate(d)) :
                             \A y \in PlacesOf(out, PrintedDate(e)) : x < y
               /\ <<>> \in dates =>
                     \A x \in PlacesOf(out, <<"<","s","t","r","o","n","g",">">>) :
                         \E y \in PlacesOf(out, <<"<","p",">">>) : y > x
               /\ Cardinality(PlacesOf(out, <<"bullet">>)) = Cardinality(bullets)
               /\ \A a \in { hist[k].action : k \in DOMAIN hist } :
                     /\ Cardinality(PlacesOf(out, PrintedAction(a)))
                           = Cardinality({ k \in DOMAIN hist : hist[k].action = a })
                     /\ Cardinality(PlacesOf(out, <<"bullet", " ">> \o PrintedAction(a)))
                           = Cardinality({ k \in bullets : hist[k].action = a })

\* three events were given oldest first, two of them on the later date: the
\* later date's block came first with two bulleted lines, the other action
\* stood without a bullet
C17_Witness ==
    /\ call.fn = "buildTimelineHtml"
    /\ Len(call.info.history) = 3
    /\ call.info.history[1].date = <<"2","0","2","4","-","0","3","-","0","1">>
    /\ call.info.history[2].date = <<"2","0","2","4","-","0","3","-","0","5">>
    /\ call.info.history[3].date = <<"2","0","2","4","-","0","3","-","0","5">>
    /\ call.info.history[2].action # call.info.history[3].action
    /\ Cardinality(PlacesOf(call.returned, <<"bullet">>)) = 2
    /\ Cardinality(PlacesOf(call.returned, <<"<","p",">">>)) = 2

\* C18: without a history buildTimelineHtml prints a single block built from
\* the bill's last-action date and text, and returns the empty string when the
\* last-action date and the last-action text are both empty.
C18_NoHistoryFallback ==
    (call.fn = "buildTimelineHtml" /\ call.info.history = <<>>)
        => /\ Cardinality(PlacesOf(call.returned, <<"<","p",">">>)) <= 1
           /\ (call.info.last_action_date = <<>> /\ call.info.last_action = <<>>)
                 => call.returned = <<>>

\* the tags the two renderers write
RendererTags ==
    { <<"<","p",">">>, <<"<","/","p",">">>, <<"<","b","r",">">>,
      <<"<","s","t","r","o","n","g",">">>, <<"<","/","s","t","r","o","n","g",">">> }

\* the entities of the five reserved characters
Entities ==
    { <<"&","a","m","p",";">>, <<"&","l","t",";">>, <<"&","g","t",";">>,
      <<"&","q","u","o","t",";">>, <<"&","#","3","9",";">> }

\* the token stands in the text from place k on
StandsAt(text, k, token) ==
    k + Len(token) - 1 <= Len(text) /\ SubSeq(text, k, k + Len(token) - 1) = token

\* the token stands in the text up to place k
EndsAt(text, k, token) ==
    k >= Len(token) /\ SubSeq(text, k - Len(token) + 1, k) = token

\* no reserved character stands raw in the text: every < opens and every >
\* closes a tag of the renderers, every & opens an entity, no quote is left
RawMarkupFree(out) ==
    \A k \in DOMAIN out :
        /\ out[k] = "<" => \E t \in RendererTags : StandsAt(out, k, t)
        /\ out[k] = ">" => \E t \in RendererTags : EndsAt(out, k, t)
        /\ out[k] = "&" => \E e \in Entities : StandsAt(out, k, e)
        /\ out[k] \notin {"\"", "'"}

\* no reserved character was escaped twice: no entity of the text has its
\* ampersand written as an entity in turn
EscapedOnce(out) ==
    \A k \in DOMAIN out :
        StandsAt(out, k, <<"&","a","m","p",";">>)
            => \A e \in Entities : ~StandsAt(out, k + 5, Tail(e))

\* C19: in the output of buildTimelineHtml and of buildSponsorsHtml every
\* & < > " ' of the source text (an action, a date that does not parse, a
\* sponsor's name or party; none of them holds an entity) stands only as its
\* entity, and the only raw markup is the renderers' p, strong and br tags.
C19_OnlyEscapedEntities ==
    call.fn \in {"buildTimelineHtml", "buildSponsorsHtml"}
        => RawMarkupFree(call.returned) /\ EscapedOnce(call.returned)

\* the names printed by buildSponsorsHtml
PrintedName(n) ==
    IF n = <<"B","<","b",">","&">>
    THEN <<"B","&","l","t",";","b","&","g","t",";","&","a","m","p",";">>
    ELSE IF n = <<"O","'","\"","C">>
    THEN <<"O","&","#","3","9",";","&","q","u","o","t",";","C">>
    ELSE n

\* C20: buildSponsorsHtml prints the sponsors of type 1 (primary) and 3
\* (joint) and drops every other type; an empty list and a list whose sponsors
\* are all dropped give the empty string.
C20_PrimaryAndJointOnly ==
    call.fn = "buildSponsorsHtml"
        => LET list == call.info.sponsors
               out == call.returned
               kept == { k \in DOMAIN list : list[k].sponsor_type_id \in {1, 3} }
           IN  /\ kept = {} <=> out = <<>>
               /\ Cardinality(PlacesOf(out, <<"<","p",">">>)) <= Cardinality(kept)
               /\ \A k \in DOMAIN list :
                     LET given == { x \in kept : list[x].name = list[k].name }
                         printed == PlacesOf(out, PrintedName(list[k].name))
                     IN  /\ Cardinality(printed) <= Cardinality(given)
                         /\ given = {} <=> printed = {}

\* a primary, a co- and a joint sponsor were given: two lines were printed,
\* the co-sponsor's name is not among them
C20_Witness ==
    /\ call.fn = "buildSponsorsHtml"
    /\ Len(call.info.sponsors) = 3
    /\ \E a, b, c \in 1..3 :
          /\ call.info.sponsors[a].sponsor_type_id = 1
          /\ call.info.sponsors[b].sponsor_type_id = 2
          /\ call.info.sponsors[c].sponsor_type_id = 3
          /\ call.info.sponsors[b].name \notin { call.info.sponsors[a].name, call.info.sponsors[c].name }
          /\ PlacesOf(call.returned, PrintedName(call.info.sponsors[b].name)) = {}
    /\ Cardinality(PlacesOf(call.returned, <<"<","p",">">>)) = 2

\* the composite key of a sponsor entry, by its four components
KeyOf(e) == <<e.name, e.sponsor_type_id, e.party, e.district>>

\* the line of an entry as it is printed
PrintedLine(e) ==
    <<"<","p",">">>
        \o (IF e.role_id = 1 THEN <<"R","e","p","."," ">>
            ELSE IF e.role_id = 2 THEN <<"S","e","n","."," ">> ELSE <<>>)
        \o PrintedName(e.name)
        \o (IF e.party = <<>> THEN <<>>
            ELSE IF e.party = <<"D","&","F","'">>
            THEN <<" ","(","D","&","a","m","p",";","F","&","#","3","9",";",")">>
            ELSE <<" ","(">> \o e.party \o <<")">>)
        \o <<"<","/","p",">">>

\* of the entries of type 1 or 3, for each composite key the first given (the
\* entries of one key are equal in rank and name, so the sort keeps their
\* order) is printed and no other
DedupeRule(list, out) ==
    LET kept == { k \in DOMAIN list : list[k].sponsor_type_id \in {1, 3} }
        first == { k \in kept : \A j \in kept : KeyOf(list[j]) = KeyOf(list[k]) => k <= j }
    IN  /\ Cardinality(PlacesOf(out, <<"<","p",">">>)) = Cardinality(first)
        /\ \A k \in first :
              Cardinality(PlacesOf(out, PrintedLine(list[k])))
                  = Cardinality({ j \in first : PrintedLine(list[j]) = PrintedLine(list[k]) })

\* C21: of several sponsor entries with the same (name, type, party, district)
\* buildSponsorsHtml prints only the first in sorted order, and two entries
\* that differ in one of the four components are both printed.
C21_DedupeByCompositeKey ==
    (call.fn = "buildSponsorsHtml" /\ call.info.sponsors # <<>>
        /\ \A k \in DOMAIN call.info.sponsors : call.info.sponsors[k].name = <<"A","n","n">>)
        => DedupeRule(call.info.sponsors, call.returned)

Rep == <<"R","e","p",".">>
Sen == <<"S","e","n",".">>

\* the prefix the role text stands for, if any
OfRoleText(role) ==
    IF toLowerCase(role) \in { <<"s","e","n">>, <<"s","e","n","a","t","o","r">> } THEN Sen
    ELSE IF toLowerCase(role) \in { <<"r","e","p">>,
                                    <<"r","e","p","r","e","s","e","n","t","a","t","i","v","e">> }
    THEN Rep
    ELSE <<>>

\* the prefix the chamber text stands for, if any
OfChamberText(ch) ==
    IF toLowerCase(ch) \in { <<"s">>, <<"s","e","n","a","t","e">>, <<"u","p","p","e","r">> } THEN Sen
    ELSE IF toLowerCase(ch) \in { <<"h">>, <<"h","o","u","s","e">>, <<"l","o","w","e","r">> } THEN Rep
    ELSE <<>>

\* the prefix the district stands for: digits and a letter for Rep., digits
\* alone for Sen.; narrowly, at most three digits and the letter A or B
OfDistrict(dist, narrowly) ==
    IF /\ Len(dist) >= 2
       /\ AllDigits(SubSeq(dist, 1, Len(dist) - 1))
       /\ IsLower(dist[Len(dist)]) \/ IsUpper(dist[Len(dist)])
       /\ narrowly => Len(dist) <= 4 /\ dist[Len(dist)] \in {"A", "B", "a", "b"}
    THEN Rep
    ELSE IF Len(dist) >= 1 /\ AllDigits(dist) /\ (narrowly => Len(dist) <= 3) THEN Sen
    ELSE <<>>

\* the first source that resolves decides the prefix
PrefixRule(narrowly) ==
    (/\ call.fn = "buildSponsorsHtml"
     /\ Len(call.info.sponsors) = 1
     /\ call.info.sponsors[1] \in PrefixSources)
        => LET e == call.info.sponsors[1]
               prefix == IF e.role_id = 1 THEN Rep
                         ELSE IF e.role_id = 2 THEN Sen
                         ELSE IF OfRoleText(e.role) # <<>> THEN OfRoleText(e.role)
                         ELSE IF OfChamberText(e.chamber) # <<>> THEN OfChamberText(e.chamber)
                         ELSE IF call.state = "MN" THEN OfDistrict(e.district, narrowly)
                         ELSE <<>>
           IN  call.returned
                   = <<"<","p",">">> \o (IF prefix = <<>> THEN <<>> ELSE prefix \o <<" ">>)
                         \o e.name \o <<"<","/","p",">">>

\* C22: the sponsor's prefix is decided by the first source that resolves: the
\* role id (1 Rep., 2 Sen.), then the role text, then the chamber text, then,
\* for the state only, the district (digits followed by a letter give Rep.,
\* digits only give Sen.); if none resolves the prefix is empty.
C22_PrefixPriority == PrefixRule(FALSE)

\* C22 with the district pattern of the code: one to three digits followed by
\* A or B (in either case) give Rep., one to three digits alone give Sen.
C22_PrefixPriorityOfMinnesotaDistricts == PrefixRule(TRUE)

\* a state sponsor without role id, role or chamber text got Rep. from the
\* district 12A
C22_Witness ==
    /\ call.fn = "buildSponsorsHtml"
    /\ call.state = "MN"
    /\ Len(call.info.sponsors) = 1
    /\ call.info.sponsors[1].role_id = 0
    /\ call.info.sponsors[1].role = <<>>
    /\ call.info.sponsors[1].chamber = <<>>
    /\ call.info.sponsors[1].district = <<"1","2","A">>
    /\ call.returned = <<"<","p",">","R","e","p","."," ","A","n","n","<","/","p",">">>

\* C23: createSlug returns, for every text, at most 80 characters out of a-z,
\* 0-9 and the hyphen, without two hyphens in a row, and the empty string for
\* a text without letter or digit.
C23_SlugAlphabetAndLength ==
    call.fn = "createSlug"
        => /\ Len(call.returned) <= 80
           /\ \A k \in DOMAIN call.returned :
                 /\ IsLower(call.returned[k]) \/ IsDigit(call.returned[k]) \/ call.returned[k] = "-"
                 /\ k > 1 => ~(call.returned[k - 1] = "-" /\ call.returned[k] = "-")
           /\ (\A k \in DOMAIN call.text :
                   ~(IsLower(call.text[k]) \/ IsUpper(call.text[k]) \/ IsDigit(call.text[k])))
                 => call.returned = <<>>

\* a text of more than 80 characters with two separators in a row was cut to
\* 80 characters
C23_Witness ==
    /\ call.fn = "createSlug"
    /\ Len(call.text) > 80
    /\ \E k \in 2..Len(call.text) :
          call.text[k - 1] \in {"-", " "} /\ call.text[k] \in {"-", " "}
    /\ Len(call.returned) = 80

\* C28: createSlug's result never begins or ends with a hyphen, also for a
\* text whose cleaned form is longer than 80 characters, and createSlug
\* applied to its own result returns that result.
C28_SlugEndsAndIdempotence ==
    call.fn = "createSlug"
        => /\ call.returned # <<>>
                 => Head(call.returned) # "-" /\ call.returned[Len(call.returned)] # "-"
           /\ call.returnedAgain = call.returned

\* the place of a name among the names given, in the order of the alphabet
NamePlace(n) ==
    IF n = <<"A","n","n">> THEN 1 ELSE IF n = <<"B","<","b",">","&">> THEN 2 ELSE 3

\* the entry at a is to be printed before the entry at b: primary before
\* joint, then by name, then as given
PrintedBefore(list, a, b) ==
    LET ri == IF list[a].sponsor_type_id = 1 THEN 0 ELSE 1
        rj == IF list[b].sponsor_type_id = 1 THEN 0 ELSE 1
    IN  \/ ri < rj
        \/ ri = rj /\ NamePlace(list[a].name) < NamePlace(list[b].name)
        \/ ri = rj /\ list[a].name = list[b].name /\ a < b

PatchesOf(id) == { k \in Patches : net[k].item = id }

\* the record id, the unnamed record of HF 1099, got the tabled bill b from
\* the source: one patch was made for it, which sets the name to the bill's
\* title, the house status to the Tabled option of the house field and the
\* house link to a URL, and with the patch accepted the id is queued
TabledExample(id, b) ==
    (/\ id <= cursor
     /\ bills[id].fieldData = UnnamedRecord
     /\ BillAnswersOf(id) # {}
     /\ FirstInfoOf(id) = b)
        => /\ Cardinality(PatchesOf(id)) = 1
           /\ \A k \in PatchesOf(id) :
                 LET fd == net[k].data.fieldData
                 IN  /\ "name" \in DOMAIN fd /\ fd["name"] = b.title
                     /\ "house-file-status" \in DOMAIN fd
                     /\ fd["house-file-status"] = <<"h", 2>>
                     /\ "house-file-link" \in DOMAIN fd
                     /\ fd["house-file-link"] \notin { <<>>, Null }
                     /\ net[k].answer = "ok" => id \in Range(toPublish)

\* C24: a record with an empty name, house number 'HF 1099', no senate number
\* and the year 2024, whose bill has status 3, the last action 'Laid on the
\* table', a title and at least one document link, yields exactly one patch
\* that sets the name to the title, the house status to the Tabled option and
\* the house link to a non-empty URL, and (its patch accepted) it is queued
\* for publish.
C24_TabledExample ==
    \A id \in DOMAIN bills : \A b \in { TabledBill, TabledBillAmended } : TabledExample(id, b)

\* C25: at the end of a run every listed record is accounted for in exactly
\* one outcome: processed = updated + skipped + the number of per-record error
\* entries, no record is counted both as updated and as errored, and every
\* record counted as updated has its entry in updatedBills.
C25_EveryRecordOneOutcome ==
    (pc = "done" /\ response.status = 200)
        => /\ response.summary.processed
                 = response.summary.updated + response.summary.skipped
                       + Cardinality({ k \in DOMAIN response.errors :
                                          "billId" \in DOMAIN response.errors[k] })
           /\ \A id \in PatchedOkIds :
                 /\ \A e \in Range(response.errors) : "billId" \in DOMAIN e => e.billId # id
                 /\ \E u \in Range(response.updatedBills) : "id" \in DOMAIN u /\ u.id = id

\* the option ids of the four labels on the house field and on the senate
\* field of the collection schema
HouseOption(label) ==
    CASE label = <<"A","c","t","i","v","e">> -> <<"h", 1>>
      [] label = <<"T","a","b","l","e","d">> -> <<"h", 2>>
      [] label = <<"F","a","i","l","e","d">> -> <<"h", 3>>
      [] label = <<"P","a","s","s","e","d">> -> <<"h", 4>>
SenateOption(label) ==
    CASE label = <<"P","a","s","s","e","d">> -> <<"s", 1>>
      [] label = <<"F","a","i","l","e","d">> -> <<"s", 2>>
      [] label = <<"T","a","b","l","e","d">> -> <<"s", 3>>
      [] label = <<"A","c","t","i","v","e">> -> <<"s", 4>>

\* the label computed for the bill info of the record id
LabelOf(id, info) ==
    computeStatusKey(info, localsOf(bills[id]).state, localsOf(bills[id]).legislativeYear, now)

\* C26: a chamber's status field in a patch is the option id the schema
\* assigns, on that chamber's own field, to the label (Active, Tabled, Failed
\* or Passed) computed for that chamber's own bill; it is never undefined,
\* since the run ends before any record is processed when one of the labels
\* is missing from the options of either status field.
C26_StatusOptionIds ==
    /\ \A k \in Patches :
          LET fd == net[k].data.fieldData
          IN  /\ "house-file-status" \in DOMAIN fd =>
                    fd["house-file-status"] = HouseOption(LabelOf(net[k].item, FirstInfoOf(net[k].item)))
              /\ "senate-file-status" \in DOMAIN fd =>
                    fd["senate-file-status"] = SenateOption(LabelOf(net[k].item, LastInfoOf(net[k].item)))
    /\ LoopEntered =>
          /\ Range(StatusNames) \subseteq DOMAIN ids.houseStatusIds
          /\ Range(StatusNames) \subseteq DOMAIN ids.senateStatusIds
    /\ ~LoopEntered => results.processed = 0 /\ Patches = {} /\ Lookups = {}

\* one patch set the house status to the house field's Active option and the
\* senate status to the senate field's Tabled option
C26_Witness ==
    \E k \in Patches :
        /\ "house-file-status" \in DOMAIN net[k].data.fieldData
        /\ "senate-file-status" \in DOMAIN net[k].data.fieldData
        /\ net[k].data.fieldData["house-file-status"] = <<"h", 1>>
        /\ net[k].data.fieldData["senate-file-status"] = <<"s", 3>>

\* the lookups of the record id all returned a bill: one for its primary
\* number and, with two different numbers present, one for its senate number
LookupsSucceeded(id) ==
    LET nn == StatedNumbers(bills[id].fieldData)
    IN  Cardinality(BillAnswersOf(id))
            = IF nn.house # <<>> /\ nn.senate # <<>> /\ nn.house # nn.senate THEN 2 ELSE 1

\* C27: every record that is not skipped for manual override or missing
\* identifiers and whose lookups succeed results in exactly one patch request,
\* whatever the stored values are: no record is skipped for 'No changes to
\* apply', the timeline and sponsors fields being in every payload.
C27_AlwaysPatched ==
    /\ \A id \in 1..cursor :
          (~Skips(bills[id]) /\ LookupsSucceeded(id)) => Cardinality(PatchesOf(id)) = 1
    /\ \A r \in Range(results.skipReasons) :
          r.reason \in {"Manual override enabled", "No HF/SF number"}
    /\ \A k \in Patches : {"timeline", "sponsors"} \subseteq DOMAIN net[k].data.fieldData

\* a record with its name, its number in normal form and no year, whose bill
\* has no link: the patch holds the computed fields alone
C27_Witness ==
    \E k \in Patches :
        /\ DOMAIN net[k].data.fieldData = {"timeline", "sponsors", "house-file-status"}
        /\ "slug" \notin DOMAIN net[k].data
        /\ net[k].data.fieldData["timeline"]
              = <<"<","p",">","L","a","i","d"," ","o","n"," ","t","h","e"," ","t","a","b","l","e","<","/","p",">">>
        /\ net[k].data.fieldData["sponsors"] = <<>>

\* the getBill requests made for the record id, in order
LookupsOf(id) == SelectSeq(net, LAMBDA r : r.op = "getBill" /\ r.item = id)

\* the forms a number is queried in: a federal HR number as HB and then as
\* HR, a federal S number as SB, every other number as it stands
StatedForms(state, n) ==
    IF state = "US" /\ MatchCode(n, <<"H","R">>)
    THEN << <<"H","B">> \o SubSeq(n, 3, Len(n)), n >>
    ELSE IF state = "US" /\ MatchCode(n, <<"S">>)
    THEN << <<"S","B">> \o SubSeq(n, 2, Len(n)) >>
    ELSE << n >>

\* the number of requests one lookup takes from the place from on: one when
\* the first of two forms returns a bill, else one per form
Taken(reqs, from, forms) ==
    IF Len(forms) = 2 /\ from <= Len(reqs) /\ IsBillAnswer(reqs[from].answer) THEN 1
    ELSE Len(forms)

\* the lookup queried its forms in order, and whether its last request
\* returned a bill
InOrder(reqs, from, forms) ==
    /\ from + Taken(reqs, from, forms) - 1 <= Len(reqs)
    /\ \A k \in 1..Taken(reqs, from, forms) : reqs[from + k - 1].bill = forms[k]
Returned(reqs, from, forms) ==
    IsBillAnswer(reqs[from + Taken(reqs, from, forms) - 1].answer)

\* the lookups of the record id: of its primary number and, that one
\* returned and two different numbers present, of its senate number; the record's
\* error is raised exactly when the last request of a lookup failed
LookupOrder(id, reqs, nn) ==
    LET primary == StatedForms(reqs[1].state, IF nn.house # <<>> THEN nn.house ELSE nn.senate)
        senate == StatedForms(reqs[1].state, nn.senate)
        both == nn.house # <<>> /\ nn.senate # <<>> /\ nn.house # nn.senate
        next == Taken(reqs, 1, primary) + 1
    IN  /\ InOrder(reqs, 1, primary)
        /\ IF Returned(reqs, 1, primary) /\ both
           THEN /\ InOrder(reqs, next, senate)
                /\ Len(reqs) = next + Taken(reqs, next, senate) - 1
                /\ Returned(reqs, next, senate) <=> PatchesOf(id) # {}
           ELSE /\ Len(reqs) = next - 1
                /\ Returned(reqs, 1, primary) <=> PatchesOf(id) # {}
        /\ PatchesOf(id) = {} => \E e \in RecordErrors : results.errors[e].billId = id

\* C30: for a federal number HR<digits> fetchLegiScanBill queries the HB form
\* first and returns its bill; only when that attempt fails (not OK, no
\* payload, or thrown) it queries the HR form, and it raises the record's
\* error only when that query fails as well; a federal S<digits> number is
\* queried once as SB<digits>, a state number once as it stands.
C30_LookupOrder ==
    \A id \in 1..cursor :
        ~Skips(bills[id]) =>
            /\ LookupsOf(id) # <<>>
            /\ LookupOrder(id, LookupsOf(id), StatedNumbers(bills[id].fieldData))

\* the HB form of a federal HR number was answered without payload, the HR
\* form returned the bill, and the record was patched
C30_Witness ==
    \E id \in 1..cursor :
        /\ Len(LookupsOf(id)) = 2
        /\ LookupsOf(id)[1].state = "US"
        /\ LookupsOf(id)[1].bill = <<"H","B","3">>
        /\ LookupsOf(id)[1].answer = [status |-> "OK"]
        /\ LookupsOf(id)[2].bill = <<"H","R","3">>
        /\ IsBillAnswer(LookupsOf(id)[2].answer)
        /\ PatchesOf(id) # {}

====
